---- MODULE Spec2Model ----
(***************************************************************************)
(* Model of recbole/trainer/trainer.py: the Trainer, FairGoTrainer and     *)
(* PFCNTrainer sessions (fit, pretrain, masked epochs, checkpoint save and *)
(* resume).  One session object is modelled; its fields are the variables. *)
(* The recommendation model, the data loaders and the metric library are   *)
(* external: a batch loss is "finite or NaN", a validation pass yields a   *)
(* score drawn from Scores, model parameters and optimizer states are the  *)
(* number of optimizer steps they have absorbed.                           *)
(* config['save_sst_embed'], config['ips_norm'] and dynamic negative       *)
(* sampling are taken as switched off.                                     *)
(***************************************************************************)
EXTENDS Integers, Sequences, FiniteSets, TLC

\* ---------------------------------------------------------------- bounds
MaxEpochs == 3          \* config['epochs'] ranges over 1..MaxEpochs
NumBatches == 2         \* len(train_data)
MaxScore == 2           \* validation scores range over 1..MaxScore
MaxSst == 2             \* len(config['sst_attr_list']) ranges over 1..MaxSst
MaxRedraws == 2         \* the rejection loop of the mask is followed for MaxRedraws redraws
MaxPretrainEpochs == 1  \* config['pretrain_epochs'] ranges over 1..MaxPretrainEpochs
MaxStoppingStep == 2    \* config['stopping_step'] ranges over 1..MaxStoppingStep

\* np.inf and -np.inf of Trainer.__init__, as integers outside 1..MaxScore
PosInf == 1000
NegInf == -1000

Scores == 1..MaxScore

\* Optional values: None is the empty sequence, Some(x) a one-element one.
None == <<>>
Some(x) == <<x>>

Variants == {"Trainer", "FairGo", "PFCN"}
Roles == {"base", "pretrain", "filter", "dis"}
Files == {"own", "ext", "pretrain"}

VARIABLES
    cfg,                \* self.config and the trainer class
    pc,                 \* position of the running call ("idle": none)
    err,                \* the exception that ended the run, "" if none
    disk,               \* checkpoint files: file -> None or Some(checkpoint)
    saved_model_file,   \* self.saved_model_file
    start_epoch,        \* self.start_epoch
    cur_step,           \* self.cur_step
    best_valid_score,   \* self.best_valid_score
    best_valid_result,  \* self.best_valid_result
    train_loss_dict,    \* self.train_loss_dict: set of <<epoch, loss>>
    epochs,             \* self.epochs
    eval_step,          \* self.eval_step
    optimizer,          \* the role self.optimizer refers to
    opt_state,          \* role -> state of that optimizer
    params,             \* self.model parameters (state_dict)
    train_stage,        \* self.model.train_stage
    args,               \* the arguments of the running fit call
    loop,               \* "pretrain" or "fit": the epoch loop in progress
    epoch_idx,          \* loop variable of the epoch loop
    valid,              \* [score, stop_flag, update_flag] of the last validation
    ep,                 \* locals of _train_epoch: sst_list, pass, batch_idx, losses
    ret,                \* what fit returned: None or Some(<<score, result>>)
    ckpt_log,           \* history: the <<file, epoch>> of every checkpoint write
    cb_log,             \* history: the <<epoch, score>> of every callback_fn call
    epochs_run,         \* history: the <<loop, epoch>> of every epoch that began training
    calls,              \* history: the calls made on the session, in order
    ev,                 \* locals of the running evaluation routine
    warnings,           \* history: the messages given to logger.warning, in order
    training            \* model.training: True in training mode, False in inference mode

vars == <<cfg, pc, err, disk, saved_model_file, start_epoch, cur_step,
          best_valid_score, best_valid_result, train_loss_dict, epochs, eval_step,
          optimizer, opt_state, params, train_stage, args, loop, epoch_idx,
          valid, ep, ret, ckpt_log, cb_log, epochs_run, calls, ev, warnings,
          training>>

\* ------------------------------------------------------------ helpers
Min(a, b) == IF a <= b THEN a ELSE b

WorstScore(bigger) == IF bigger THEN NegInf ELSE PosInf

\* recbole.utils.early_stopping(value, best, cur_step, max_step, bigger)
early_stopping(value, best, step, max_step, bigger) ==
    IF (bigger /\ value > best) \/ (~bigger /\ value < best)
    THEN [best |-> value, cur_step |-> 0, stop_flag |-> FALSE, update_flag |-> TRUE]
    ELSE [best |-> best, cur_step |-> step + 1,
          stop_flag |-> (step + 1 >= max_step), update_flag |-> FALSE]

\* ------------------------------------------------------ configurations
Cfg(v, e, k, s, b, i, n, f, w, p) ==
    [variant |-> v, epochs |-> e, eval_step |-> k, stopping_step |-> s,
     valid_metric_bigger |-> b, train_epoch_interval |-> i, sst_num |-> n,
     filter_on |-> f, load_pretrain_weight |-> w, pretrain_epochs |-> p,
     sst_attr_list |-> [j \in 1..n |-> j],
     pretrain_model_file_path |-> None]

\* The configurations of one trainer class over the given ranges of epochs (E),
\* eval_step (K), stopping_step (S) and valid_metric_bigger (B).  The fields a
\* trainer class never reads are held at one value.
TrainerConfigs(E, K, S, B) ==
    { Cfg("Trainer", e, k, s, b, 1, 1, FALSE, TRUE, 1) :
      e \in E, k \in K, s \in S, b \in B }

FairGoConfigs(E, K, S, B) ==
    { Cfg("FairGo", e, k, s, b, i, n, TRUE, w, p) :
      e \in E, k \in K, s \in S, b \in B,
      i \in 1..2, n \in 1..MaxSst, w \in BOOLEAN, p \in 1..MaxPretrainEpochs }

PFCNConfigs(E, K, S, B) ==
    { Cfg("PFCN", e, k, s, b, i, n, TRUE, TRUE, 1) :
      e \in E, k \in K, s \in S, b \in B, i \in 1..2, n \in 1..MaxSst }
    \cup
    { Cfg("PFCN", e, k, s, b, 1, 1, FALSE, TRUE, 1) :
      e \in E, k \in K, s \in S, b \in B }

\* Every trainer class, with the full epoch budget
Configs ==
    TrainerConfigs({MaxEpochs}, 0..2, {1}, {TRUE})
    \cup FairGoConfigs({MaxEpochs}, 0..2, {1}, {TRUE})
    \cup PFCNConfigs({MaxEpochs}, 0..2, {1}, {TRUE})

\* The plain Trainer, over every epoch budget, stopping step and direction
FitConfigs == TrainerConfigs(1..MaxEpochs, 0..2, 1..MaxStoppingStep, BOOLEAN)

\* The trainer trains with a sampled mask: FairGoTrainer always, PFCNTrainer
\* when filter_mode != 'none'.
Masked(c) == c.variant = "FairGo" \/ (c.variant = "PFCN" /\ c.filter_on)

NoArgs == [valid_data |-> "none", saved |-> FALSE, callback_fn |-> FALSE]
NoValid == [score |-> 0, stop_flag |-> FALSE, update_flag |-> FALSE]
NoEp == [sst_list |-> None, pass |-> "none", batch_idx |-> 0, loss |-> "none",
         total_loss |-> None, filter_loss |-> 0, dis_loss |-> 0, redraws |-> 0]

\* No evaluation routine is running
NoEv == [op |-> "none"]

\* Mutant of InitOf: eval_step is taken from the config without the clamp.
InitOf_mutant(C) ==
    /\ cfg \in C
    /\ pc = "idle"
    /\ err = ""
    /\ disk = [f \in Files |-> None]
    /\ saved_model_file = "own"
    /\ start_epoch = 0
    /\ cur_step = 0
    /\ best_valid_score = WorstScore(cfg.valid_metric_bigger)
    /\ best_valid_result = None
    /\ train_loss_dict = {}
    /\ epochs = cfg.epochs
    /\ eval_step = cfg.eval_step
    /\ optimizer = "base"
    /\ opt_state = [r \in Roles |-> 0]
    /\ params = 0
    /\ train_stage = IF cfg.variant = "FairGo"
                     THEN (IF cfg.load_pretrain_weight THEN "finetune" ELSE "pretrain")
                     ELSE "unset"
    /\ args = NoArgs
    /\ loop = "fit"
    /\ epoch_idx = 0
    /\ valid = NoValid
    /\ ep = NoEp
    /\ ret = None
    /\ ckpt_log = <<>>
    /\ cb_log = <<>>
    /\ epochs_run = <<>>
    /\ calls = <<>>
    /\ ev = NoEv
    /\ warnings = <<>>
    /\ training = TRUE

\* Trainer.__init__ (and FairGoTrainer.__init__, PFCNTrainer.__init__)
InitOf(C) ==
    /\ cfg \in C
    /\ pc = "idle"
    /\ err = ""
    /\ disk = [f \in Files |-> None]
    /\ saved_model_file = "own"
    /\ start_epoch = 0
    /\ cur_step = 0
    /\ best_valid_score = WorstScore(cfg.valid_metric_bigger)
    /\ best_valid_result = None
    /\ train_loss_dict = {}
    /\ epochs = cfg.epochs
    /\ eval_step = Min(cfg.eval_step, cfg.epochs)
    /\ optimizer = "base"
    /\ opt_state = [r \in Roles |-> 0]
    /\ params = 0
    /\ train_stage = IF cfg.variant = "FairGo"
                     THEN (IF cfg.load_pretrain_weight THEN "finetune" ELSE "pretrain")
                     ELSE "unset"
    /\ args = NoArgs
    /\ loop = "fit"
    /\ epoch_idx = 0
    /\ valid = NoValid
    /\ ep = NoEp
    /\ ret = None
    /\ ckpt_log = <<>>
    /\ cb_log = <<>>
    /\ epochs_run = <<>>
    /\ calls = <<>>
    /\ ev = NoEv
    /\ warnings = <<>>
    /\ training = TRUE

\* ------------------------------------------------------------ checkpoints
\* d[k] = v on a dict held as a set of <<key, value>> pairs
DictPut(d, k, v) == {q \in d : q[1] # k} \cup {<<k, v>>}

\* Mutant of CheckpointState: 'epoch' records the epoch to resume from.
CheckpointState_mutant(epoch) ==
    [model |-> "same", binds |-> TRUE,
     epoch |-> Some(epoch + 1),
     cur_step |-> Some(cur_step),
     best_valid_score |-> Some(best_valid_score),
     state_dict |-> params,
     optimizer |-> Some(opt_state[optimizer]),
     optimizer_filter |-> IF Masked(cfg) THEN Some(opt_state["filter"]) ELSE None,
     optimizer_dis |-> IF Masked(cfg) THEN Some(opt_state["dis"]) ELSE None]

\* The state dict _save_checkpoint builds (Trainer, FairGoTrainer, PFCNTrainer).
\* "model" is config['model'] seen from this session, "binds" whether the saved
\* parameter shapes fit this session's model.
CheckpointState(epoch) ==
    [model |-> "same", binds |-> TRUE,
     epoch |-> Some(epoch),
     cur_step |-> Some(cur_step),
     best_valid_score |-> Some(best_valid_score),
     state_dict |-> params,
     optimizer |-> Some(opt_state[optimizer]),
     optimizer_filter |-> IF Masked(cfg) THEN Some(opt_state["filter"]) ELSE None,
     optimizer_dis |-> IF Masked(cfg) THEN Some(opt_state["dis"]) ELSE None]

\* The state dict FairGoTrainer.save_pretrained_model builds: no epoch, step or score.
PretrainedState ==
    [model |-> "same", binds |-> TRUE,
     epoch |-> None, cur_step |-> None, best_valid_score |-> None,
     state_dict |-> params,
     optimizer |-> Some(opt_state[optimizer]),
     optimizer_filter |-> None, optimizer_dis |-> None]

\* torch.save(state, file): the file is overwritten.
\* _save_checkpoint(epoch) writes self.saved_model_file.
SaveCheckpoint(epoch) ==
    /\ disk' = [disk EXCEPT ![saved_model_file] = Some(CheckpointState(epoch))]
    /\ ckpt_log' = Append(ckpt_log, <<saved_model_file, epoch>>)

\* save_pretrained_model(self.saved_pretrain_model_file), called in epoch `epoch`
SavePretrained(epoch) ==
    /\ disk' = [disk EXCEPT !["pretrain"] = Some(PretrainedState)]
    /\ ckpt_log' = Append(ckpt_log, <<"pretrain", epoch>>)

\* A checkpoint file left by an earlier session of the same trainer class,
\* recorded at epoch e, with step 1 and best score 1.
ExtCheckpoint(e, m, b) ==
    [model |-> m, binds |-> b,
     epoch |-> Some(e), cur_step |-> Some(1), best_valid_score |-> Some(1),
     state_dict |-> 10,
     optimizer |-> Some(4),
     optimizer_filter |-> IF Masked(cfg) THEN Some(2) ELSE None,
     optimizer_dis |-> IF Masked(cfg) THEN Some(4) ELSE None]

\* The pretrain checkpoint of that earlier session
ExtPretrained ==
    [model |-> "same", binds |-> TRUE,
     epoch |-> None, cur_step |-> None, best_valid_score |-> None,
     state_dict |-> 9, optimizer |-> Some(2),
     optimizer_filter |-> None, optimizer_dis |-> None]

ExtPretrainChoices ==
    IF cfg.variant = "FairGo" /\ ~cfg.load_pretrain_weight THEN BOOLEAN ELSE {FALSE}

ExtCheckpoints ==
    {ExtCheckpoint(e, "same", TRUE) : e \in (-1)..(cfg.epochs - 1)}
    \cup {ExtCheckpoint(0, "other", b) : b \in BOOLEAN}

\* Grouping of the variables for UNCHANGED
session == <<start_epoch, cur_step, best_valid_score, best_valid_result,
             train_loss_dict, epochs, eval_step>>
locals == <<args, loop, epoch_idx, valid, ep>>
optim == <<optimizer, opt_state, params>>
files == <<disk, ckpt_log>>
hist == <<cb_log, epochs_run>>

\* Mutant of ResumeFrom: `self.saved_model_file = resume_file` is missing.
ResumeFrom_mutant_path(f, ck) ==
    /\ saved_model_file' = saved_model_file
    /\ start_epoch' = ck.epoch[1] + 1
    /\ cur_step' = ck.cur_step[1]
    /\ best_valid_score' = ck.best_valid_score[1]
    /\ calls' = Append(calls, "resume")
    /\ IF ~ck.binds
       THEN \* model.load_state_dict raises
            /\ pc' = "error"
            /\ err' = "RuntimeError: load_state_dict"
            /\ UNCHANGED optim
       ELSE /\ params' = ck.state_dict
            /\ optimizer' = optimizer
            /\ CASE cfg.variant = "Trainer" ->
                      /\ opt_state' = [opt_state EXCEPT ![optimizer] = ck.optimizer[1]]
                      /\ pc' = "idle" /\ err' = ""
                 [] cfg.variant = "FairGo" ->
                      /\ opt_state' = [opt_state EXCEPT
                                          !["filter"] = ck.optimizer_filter[1],
                                          !["dis"] = ck.optimizer_dis[1]]
                      /\ pc' = "idle" /\ err' = ""
                 [] cfg.variant = "PFCN" /\ cfg.filter_on ->
                      /\ opt_state' = [opt_state EXCEPT ![optimizer] = ck.optimizer[1]]
                      /\ pc' = "idle" /\ err' = ""
                 [] cfg.variant = "PFCN" /\ ~cfg.filter_on ->
                      \* self.optimizer_filter does not exist
                      /\ opt_state' = opt_state
                      /\ pc' = "error" /\ err' = "AttributeError: optimizer_filter"
    /\ warnings' = IF ck.model # "same"
                    THEN Append(warnings, "architecture differs from checkpoint")
                    ELSE warnings
    /\ UNCHANGED <<cfg, ev, training, best_valid_result, train_loss_dict, epochs, eval_step,
                   train_stage, locals, ret, ckpt_log, hist>>

\* Mutant of ResumeFrom: a checkpoint of another model identity is refused.
ResumeFrom_mutant(f, ck) ==
    /\ saved_model_file' = f
    /\ start_epoch' = ck.epoch[1] + 1
    /\ cur_step' = ck.cur_step[1]
    /\ best_valid_score' = ck.best_valid_score[1]
    /\ calls' = Append(calls, "resume")
    /\ IF ~ck.binds \/ ck.model # "same"
       THEN \* model.load_state_dict raises
            /\ pc' = "error"
            /\ err' = "RuntimeError: load_state_dict"
            /\ UNCHANGED optim
       ELSE /\ params' = ck.state_dict
            /\ optimizer' = optimizer
            /\ CASE cfg.variant = "Trainer" ->
                      /\ opt_state' = [opt_state EXCEPT ![optimizer] = ck.optimizer[1]]
                      /\ pc' = "idle" /\ err' = ""
                 [] cfg.variant = "FairGo" ->
                      /\ opt_state' = [opt_state EXCEPT
                                          !["filter"] = ck.optimizer_filter[1],
                                          !["dis"] = ck.optimizer_dis[1]]
                      /\ pc' = "idle" /\ err' = ""
                 [] cfg.variant = "PFCN" /\ cfg.filter_on ->
                      /\ opt_state' = [opt_state EXCEPT ![optimizer] = ck.optimizer[1]]
                      /\ pc' = "idle" /\ err' = ""
                 [] cfg.variant = "PFCN" /\ ~cfg.filter_on ->
                      \* self.optimizer_filter does not exist
                      /\ opt_state' = opt_state
                      /\ pc' = "error" /\ err' = "AttributeError: optimizer_filter"
    /\ warnings' = IF ck.model # "same"
                    THEN Append(warnings, "architecture differs from checkpoint")
                    ELSE warnings
    /\ UNCHANGED <<cfg, ev, training, best_valid_result, train_loss_dict, epochs, eval_step,
                   train_stage, locals, ret, ckpt_log, hist>>

\* resume_checkpoint(resume_file), by trainer class.  The assignments are in the
\* order of the code: the path and the three scalars first, then the model
\* parameters (which raises when the shapes differ), then the optimizers.
ResumeFrom(f, ck) ==
    /\ saved_model_file' = f
    /\ start_epoch' = ck.epoch[1] + 1
    /\ cur_step' = ck.cur_step[1]
    /\ best_valid_score' = ck.best_valid_score[1]
    /\ calls' = Append(calls, "resume")
    /\ IF ~ck.binds
       THEN \* model.load_state_dict raises
            /\ pc' = "error"
            /\ err' = "RuntimeError: load_state_dict"
            /\ UNCHANGED optim
       ELSE /\ params' = ck.state_dict
            /\ optimizer' = optimizer
            /\ CASE cfg.variant = "Trainer" ->
                      /\ opt_state' = [opt_state EXCEPT ![optimizer] = ck.optimizer[1]]
                      /\ pc' = "idle" /\ err' = ""
                 [] cfg.variant = "FairGo" ->
                      /\ opt_state' = [opt_state EXCEPT
                                          !["filter"] = ck.optimizer_filter[1],
                                          !["dis"] = ck.optimizer_dis[1]]
                      /\ pc' = "idle" /\ err' = ""
                 [] cfg.variant = "PFCN" /\ cfg.filter_on ->
                      /\ opt_state' = [opt_state EXCEPT ![optimizer] = ck.optimizer[1]]
                      /\ pc' = "idle" /\ err' = ""
                 [] cfg.variant = "PFCN" /\ ~cfg.filter_on ->
                      \* self.optimizer_filter does not exist
                      /\ opt_state' = opt_state
                      /\ pc' = "error" /\ err' = "AttributeError: optimizer_filter"
    /\ warnings' = IF ck.model # "same"
                    THEN Append(warnings, "architecture differs from checkpoint")
                    ELSE warnings
    /\ UNCHANGED <<cfg, ev, training, best_valid_result, train_loss_dict, epochs, eval_step,
                   train_stage, locals, ret, ckpt_log, hist>>

\* resume_checkpoint on a file an earlier session left; the file's contents are
\* the environment's, drawn here at the call.
\* For a FairGoTrainer that pretrains, the earlier session may also have left
\* its pretrain checkpoint (pre), whose path does not change between sessions.
ResumeExt(ck, pre) ==
    /\ pc = "idle"
    /\ calls = <<>>
    /\ disk' = [disk EXCEPT !["ext"] = Some(ck),
                            !["pretrain"] = IF pre THEN Some(ExtPretrained) ELSE None]
    /\ ResumeFrom("ext", ck)

\* resume_checkpoint on the checkpoint file this session wrote during fit
ResumeOwn ==
    /\ pc = "idle"
    /\ calls = <<"fit">>
    /\ disk[saved_model_file] # None
    /\ disk' = disk
    /\ ResumeFrom(saved_model_file, disk[saved_model_file][1])

\* ------------------------------------------------------------------- fit
\* What fit can be handed.  valid_data is "none" (absent or empty), "neg" (a
\* sampled-negative loader) or "full" (a FullSortEvalDataLoader); the two loader
\* kinds differ in control flow only under PFCNTrainer with a filter.
ValidChoices ==
    IF cfg.variant = "PFCN" /\ cfg.filter_on THEN {"none", "neg", "full"}
    ELSE {"none", "neg"}

\* callback_fn is read on validated epochs only; without validation it is absent.
FitArgs ==
    {[valid_data |-> v, saved |-> s, callback_fn |-> c] :
        v \in ValidChoices \ {"none"}, s \in BOOLEAN, c \in BOOLEAN}
    \cup {[valid_data |-> "none", saved |-> s, callback_fn |-> FALSE] : s \in BOOLEAN}

\* The caller sets model.train_stage to a value the trainer does not know.
SetForeignStage ==
    /\ pc = "idle"
    /\ calls = <<>>
    /\ cfg.variant = "FairGo"
    /\ train_stage \in {"pretrain", "finetune"}
    /\ train_stage' = "foreign"
    /\ UNCHANGED <<cfg, ev, warnings, training, pc, err, saved_model_file, session, optim, locals, ret,
                   files, hist, calls>>

\* Mutant of CallFit: FairGoTrainer.fit enters Trainer.fit whatever the stage.
CallFit_mutant(a) ==
    /\ pc = "idle"
    /\ "fit" \notin {calls[i] : i \in 1..Len(calls)}
    /\ args' = a
    /\ calls' = Append(calls, "fit")
    /\ pc' = "fit_entry"
    /\ UNCHANGED <<cfg, ev, warnings, training, err, saved_model_file, session, optim, train_stage, loop,
                   epoch_idx, valid, ep, ret, files, hist>>

\* fit(train_data, valid_data, saved, callback_fn): FairGoTrainer.fit dispatches
\* on the stage; Trainer and PFCNTrainer enter Trainer.fit directly.
CallFit(a) ==
    /\ pc = "idle"
    /\ "fit" \notin {calls[i] : i \in 1..Len(calls)}
    /\ args' = a
    /\ calls' = Append(calls, "fit")
    /\ IF cfg.variant = "FairGo"
       THEN CASE train_stage = "pretrain" -> pc' = "pretrain_entry" /\ err' = err
              [] train_stage = "finetune" -> pc' = "fit_entry" /\ err' = err
              [] OTHER -> pc' = "error" /\ err' = "ValueError: train_stage"
       ELSE pc' = "fit_entry" /\ err' = err
    /\ UNCHANGED <<cfg, ev, warnings, training, saved_model_file, session, optim, train_stage, loop,
                   epoch_idx, valid, ep, ret, files, hist>>

\* Mutant of PretrainEntry: `self.optimizer = self.optimizer_pretrain` is missing.
PretrainEntry_mutant ==
    /\ pc = "pretrain_entry"
    /\ eval_step' = Min(cfg.eval_step, cfg.pretrain_epochs)
    /\ optimizer' = optimizer
    /\ loop' = "pretrain"
    /\ epoch_idx' = start_epoch
    /\ pc' = "loop_head"
    /\ UNCHANGED <<cfg, ev, warnings, training, err, saved_model_file, start_epoch, cur_step,
                   best_valid_score, best_valid_result, train_loss_dict, epochs,
                   opt_state, params, train_stage, args, valid, ep, ret, files,
                   hist, calls>>

\* FairGoTrainer.pretrain, up to its epoch loop
PretrainEntry ==
    /\ pc = "pretrain_entry"
    /\ eval_step' = Min(cfg.eval_step, cfg.pretrain_epochs)
    /\ optimizer' = "pretrain"
    /\ loop' = "pretrain"
    /\ epoch_idx' = start_epoch
    /\ pc' = "loop_head"
    /\ UNCHANGED <<cfg, ev, warnings, training, err, saved_model_file, start_epoch, cur_step,
                   best_valid_score, best_valid_result, train_loss_dict, epochs,
                   opt_state, params, train_stage, args, valid, ep, ret, files,
                   hist, calls>>

\* Mutant of FitEntry: the test reads `self.start_epoch > self.epochs`.
FitEntry_mutant ==
    /\ pc = "fit_entry"
    /\ IF args.saved /\ start_epoch > epochs
       THEN SaveCheckpoint(-1)
       ELSE UNCHANGED files
    /\ loop' = "fit"
    /\ epoch_idx' = start_epoch
    /\ pc' = "loop_head"
    /\ UNCHANGED <<cfg, ev, warnings, training, err, saved_model_file, session, optim, train_stage, args,
                   valid, ep, ret, hist, calls>>

\* Trainer.fit, up to its epoch loop
FitEntry ==
    /\ pc = "fit_entry"
    /\ IF args.saved /\ start_epoch >= epochs
       THEN SaveCheckpoint(-1)
       ELSE UNCHANGED files
    /\ loop' = "fit"
    /\ epoch_idx' = start_epoch
    /\ pc' = "loop_head"
    /\ UNCHANGED <<cfg, ev, warnings, training, err, saved_model_file, session, optim, train_stage, args,
                   valid, ep, ret, hist, calls>>

\* The bound of the epoch loop in progress
LoopLimit == IF loop = "pretrain" THEN cfg.pretrain_epochs ELSE epochs

\* Mutant of EpochStart: the training routine does not call self.model.train().
EpochStart_mutant ==
    /\ pc = "loop_head"
    /\ epoch_idx < LoopLimit
    /\ IF loop = "fit" /\ Masked(cfg)
       THEN /\ pc' = "mask"
            /\ ep' = NoEp
       ELSE /\ pc' = "batch"
            /\ ep' = [NoEp EXCEPT !.pass = IF loop = "pretrain" THEN "pretrain" ELSE "plain"]
    /\ epochs_run' = Append(epochs_run, <<loop, epoch_idx>>)
    /\ training' = training
    /\ UNCHANGED <<cfg, ev, warnings, err, saved_model_file, session, optim, train_stage, args,
                   loop, epoch_idx, valid, ret, files, cb_log, calls>>

\* The epoch loop takes its next index and enters the training routine:
\* _train_epoch of the trainer class, or _train_epoch_with_mask in pretrain,
\* which begin with self.model.train(); a masked epoch samples its mask first.
EpochStart ==
    /\ pc = "loop_head"
    /\ epoch_idx < LoopLimit
    /\ IF loop = "fit" /\ Masked(cfg)
       THEN /\ pc' = "mask"
            /\ ep' = NoEp
       ELSE /\ pc' = "batch"
            /\ ep' = [NoEp EXCEPT !.pass = IF loop = "pretrain" THEN "pretrain" ELSE "plain"]
    /\ epochs_run' = Append(epochs_run, <<loop, epoch_idx>>)
    /\ training' = IF loop = "fit" /\ Masked(cfg) THEN training ELSE TRUE
    /\ UNCHANGED <<cfg, ev, warnings, err, saved_model_file, session, optim, train_stage, args,
                   loop, epoch_idx, valid, ret, files, cb_log, calls>>

\* The epoch loop is exhausted
LoopExit ==
    /\ pc = "loop_head"
    /\ epoch_idx >= LoopLimit
    /\ pc' = IF loop = "pretrain" THEN "pretrain_tail" ELSE "fit_tail"
    /\ UNCHANGED <<cfg, ev, warnings, training, err, saved_model_file, session, optim, train_stage, locals,
                   ret, files, hist, calls>>

\* ------------------------------------------------------------ one epoch
\* mask.sum()
RECURSIVE MaskSum(_, _)
MaskSum(m, n) == IF n = 0 THEN 0 ELSE m[n] + MaskSum(m, n - 1)

\* [sst for i, sst in self.mask_label.items() if mask[i] != 0]: the attribute
\* indices the mask selects, in declaration order
SstList(m) == SelectSeq([i \in 1..cfg.sst_num |-> i], LAMBDA i : m[i] # 0)

\* Mutant of MaskDraws: the draw is np.random.choice([0], sst_num).
MaskDraws_mutant_zero == [1..cfg.sst_num -> {0}]

\* Mutant of MaskDraws: the first attribute is always revealed.
MaskDraws_mutant == {m \in [1..cfg.sst_num -> {0, 1}] : m[1] = 1}

\* The draws np.random.choice([0,1], sst_num) can return
MaskDraws == [1..cfg.sst_num -> {0, 1}]

\* Mutant of MaskAccepted: the first draw is kept whatever it is.
MaskAccepted_mutant(m) == TRUE

\* Whether the rejection loop `while mask.sum() == 0` keeps the draw
MaskAccepted(m) == MaskSum(m, cfg.sst_num) # 0

\* Mutant of SampleMask: the interval test counts epochs from start_epoch.
SampleMask_mutant(m) ==
    /\ pc = "mask"
    /\ IF ~MaskAccepted(m)
       THEN /\ ep' = [ep EXCEPT !.redraws = Min(@ + 1, MaxRedraws)]
            /\ UNCHANGED <<pc, optimizer>>
       ELSE /\ pc' = "batch"
            /\ IF (epoch_idx - start_epoch) % cfg.train_epoch_interval = 0
               THEN /\ optimizer' = "filter"
                    /\ ep' = [NoEp EXCEPT !.sst_list = Some(SstList(m)), !.pass = "filter"]
               ELSE /\ optimizer' = "dis"
                    /\ ep' = [NoEp EXCEPT !.sst_list = Some(SstList(m)), !.pass = "dis"]
    /\ training' = IF MaskAccepted(m) THEN TRUE ELSE training
    /\ UNCHANGED <<cfg, ev, warnings, err, saved_model_file, session, opt_state, params,
                   train_stage, args, loop, epoch_idx, valid, ret, files, hist, calls>>

\* FairGoTrainer._train_epoch / PFCNTrainer._train_epoch, up to the first pass:
\* one iteration of the rejection loop; a rejected draw is followed by another
\* (redraws counts them up to MaxRedraws and then stays), an accepted mask fixes
\* sst_list and the first role to train.
SampleMask(m) ==
    /\ pc = "mask"
    /\ IF ~MaskAccepted(m)
       THEN /\ ep' = [ep EXCEPT !.redraws = Min(@ + 1, MaxRedraws)]
            /\ UNCHANGED <<pc, optimizer>>
       ELSE /\ pc' = "batch"
            /\ IF epoch_idx % cfg.train_epoch_interval = 0
               THEN /\ optimizer' = "filter"
                    /\ ep' = [NoEp EXCEPT !.sst_list = Some(SstList(m)), !.pass = "filter"]
               ELSE /\ optimizer' = "dis"
                    /\ ep' = [NoEp EXCEPT !.sst_list = Some(SstList(m)), !.pass = "dis"]
    /\ training' = IF MaskAccepted(m) THEN TRUE ELSE training
    /\ UNCHANGED <<cfg, ev, warnings, err, saved_model_file, session, opt_state, params,
                   train_stage, args, loop, epoch_idx, valid, ret, files, hist, calls>>

\* total_loss after one more batch loss of 1
AddLoss(total) == IF total = None THEN Some(1) ELSE Some(total[1] + 1)

\* Mutant of TrainBatch: no _check_nan, the optimizer steps on any loss.
TrainBatch_mutant(loss) ==
    /\ pc = "batch"
    /\ ep.batch_idx < NumBatches
    /\ opt_state' = [opt_state EXCEPT ![optimizer] = @ + 1]
    /\ params' = params + 1
    /\ ep' = [ep EXCEPT !.batch_idx = @ + 1, !.loss = loss, !.total_loss = AddLoss(@)]
    /\ UNCHANGED <<cfg, ev, warnings, training, pc, err, saved_model_file, session, optimizer, train_stage,
                   args, loop, epoch_idx, valid, ret, files, hist, calls>>

\* One iteration of the batch loop of _train_epoch / _train_epoch_with_mask:
\* zero_grad, loss, _check_nan, backward, clip, optimizer.step.
TrainBatch(loss) ==
    /\ pc = "batch"
    /\ ep.batch_idx < NumBatches
    /\ IF loss = "nan"
       THEN \* _check_nan raises before backward and step; total_loss is a
            \* local of the routine and is lost with the raise
            /\ pc' = "error"
            /\ err' = "ValueError: Training loss is nan"
            /\ ep' = [ep EXCEPT !.loss = loss]
            /\ UNCHANGED <<opt_state, params>>
       ELSE /\ opt_state' = [opt_state EXCEPT ![optimizer] = @ + 1]
            /\ params' = params + 1
            /\ ep' = [ep EXCEPT !.batch_idx = @ + 1, !.loss = loss,
                                !.total_loss = AddLoss(@)]
            /\ UNCHANGED <<pc, err>>
    /\ UNCHANGED <<cfg, ev, warnings, training, saved_model_file, session, optimizer, train_stage, args,
                   loop, epoch_idx, valid, ret, files, hist, calls>>

\* Mutant of PassEnd: the discriminator pass sits in the else branch of the
\* interval test, so an epoch that trains the filter ends after the filter pass.
PassEnd_mutant_order ==
    /\ pc = "batch"
    /\ ep.batch_idx = NumBatches
    /\ IF FALSE
       THEN /\ optimizer' = "dis"
            /\ ep' = [ep EXCEPT !.pass = "dis", !.batch_idx = 0, !.loss = "none",
                                !.total_loss = None,
                                !.filter_loss = ep.total_loss[1]]
            /\ pc' = pc
       ELSE /\ optimizer' = optimizer
            /\ ep' = [ep EXCEPT !.dis_loss = IF ep.pass = "dis" THEN ep.total_loss[1] ELSE 0]
            /\ pc' = "epoch_end"
    /\ training' = training
    /\ UNCHANGED <<cfg, ev, warnings, err, saved_model_file, session, opt_state, params,
                   train_stage, args, loop, epoch_idx, valid, ret, files, hist, calls>>

\* The batch loop of a pass is exhausted: the filter pass hands over to the
\* discriminator pass, any other pass ends the training routine.
PassEnd ==
    /\ pc = "batch"
    /\ ep.batch_idx = NumBatches
    /\ IF ep.pass = "filter"
       THEN /\ optimizer' = "dis"
            /\ ep' = [ep EXCEPT !.pass = "dis", !.batch_idx = 0, !.loss = "none",
                                !.total_loss = None,
                                !.filter_loss = ep.total_loss[1]]
            /\ pc' = pc
       ELSE /\ optimizer' = optimizer
            /\ ep' = [ep EXCEPT !.dis_loss = IF ep.pass = "dis" THEN ep.total_loss[1] ELSE 0]
            /\ pc' = "epoch_end"
    /\ training' = IF ep.pass = "filter" THEN TRUE ELSE training
    /\ UNCHANGED <<cfg, ev, warnings, err, saved_model_file, session, opt_state, params,
                   train_stage, args, loop, epoch_idx, valid, ret, files, hist, calls>>

\* What the training routine returned, summed as fit sums a tuple
TrainLoss ==
    IF ep.pass = "dis" THEN ep.dis_loss + ep.filter_loss ELSE ep.total_loss[1]

\* Mutant of AfterTrain: the test reads `eval_step <= 0 and not valid_data`.
AfterTrain_mutant ==
    /\ pc = "epoch_end"
    /\ train_loss_dict' = DictPut(train_loss_dict, epoch_idx, TrainLoss)
    /\ ep' = NoEp
    /\ IF eval_step <= 0 /\ args.valid_data = "none"
       THEN /\ IF args.saved
               THEN IF loop = "pretrain" THEN SavePretrained(epoch_idx)
                                         ELSE SaveCheckpoint(epoch_idx)
               ELSE UNCHANGED files
            /\ epoch_idx' = epoch_idx + 1
            /\ pc' = "loop_head"
       ELSE /\ UNCHANGED files
            /\ IF eval_step > 0 /\ (epoch_idx + 1) % eval_step = 0
               THEN pc' = "valid" /\ epoch_idx' = epoch_idx
               ELSE pc' = "loop_head" /\ epoch_idx' = epoch_idx + 1
    /\ UNCHANGED <<cfg, ev, warnings, training, err, saved_model_file, start_epoch, cur_step,
                   best_valid_score, best_valid_result, epochs, eval_step, optim,
                   train_stage, args, loop, valid, ret, hist, calls>>

\* Mutant of AfterTrain: the interval test reads `epoch_idx % self.eval_step == 0`.
AfterTrain_mutant_interval ==
    /\ pc = "epoch_end"
    /\ train_loss_dict' = DictPut(train_loss_dict, epoch_idx, TrainLoss)
    /\ ep' = NoEp
    /\ IF eval_step <= 0 \/ args.valid_data = "none"
       THEN /\ IF args.saved
               THEN IF loop = "pretrain" THEN SavePretrained(epoch_idx)
                                         ELSE SaveCheckpoint(epoch_idx)
               ELSE UNCHANGED files
            /\ epoch_idx' = epoch_idx + 1
            /\ pc' = "loop_head"
       ELSE /\ UNCHANGED files
            /\ IF epoch_idx % eval_step = 0
               THEN pc' = "valid" /\ epoch_idx' = epoch_idx
               ELSE pc' = "loop_head" /\ epoch_idx' = epoch_idx + 1
    /\ UNCHANGED <<cfg, ev, warnings, training, err, saved_model_file, start_epoch, cur_step,
                   best_valid_score, best_valid_result, epochs, eval_step, optim,
                   train_stage, args, loop, valid, ret, hist, calls>>

\* After the training routine: the loss is recorded; without validation the
\* epoch is checkpointed and the loop continues; otherwise the epoch is
\* validated when (epoch_idx + 1) % eval_step == 0.
AfterTrain ==
    /\ pc = "epoch_end"
    /\ train_loss_dict' = DictPut(train_loss_dict, epoch_idx, TrainLoss)
    /\ ep' = NoEp
    /\ IF eval_step <= 0 \/ args.valid_data = "none"
       THEN /\ IF args.saved
               THEN IF loop = "pretrain" THEN SavePretrained(epoch_idx)
                                         ELSE SaveCheckpoint(epoch_idx)
               ELSE UNCHANGED files
            /\ epoch_idx' = epoch_idx + 1
            /\ pc' = "loop_head"
       ELSE /\ UNCHANGED files
            /\ IF (epoch_idx + 1) % eval_step = 0
               THEN pc' = "valid" /\ epoch_idx' = epoch_idx
               ELSE pc' = "loop_head" /\ epoch_idx' = epoch_idx + 1
    /\ UNCHANGED <<cfg, ev, warnings, training, err, saved_model_file, start_epoch, cur_step,
                   best_valid_score, best_valid_result, epochs, eval_step, optim,
                   train_stage, args, loop, valid, ret, hist, calls>>

\* ------------------------------------------------------------ validation
\* PFCNTrainer._valid_epoch runs pfcn_evaluate, which with a filter calls
\* eval_func(batched_data, sst_list); _full_sort_batch_eval takes one argument.
ValidRaises ==
    cfg.variant = "PFCN" /\ cfg.filter_on /\ args.valid_data = "full"

\* Mutant of ValidEpoch: the call leaves out bigger=self.valid_metric_bigger, so
\* early_stopping compares with its default direction (bigger is better).
ValidEpoch_mutant(score) ==
    /\ pc = "valid"
    /\ IF ValidRaises
       THEN /\ pc' = "error"
            /\ err' = "TypeError: _full_sort_batch_eval"
            /\ UNCHANGED <<best_valid_score, cur_step, valid>>
       ELSE LET es == early_stopping(score, best_valid_score, cur_step,
                                     cfg.stopping_step, TRUE)
            IN /\ best_valid_score' = es.best
               /\ cur_step' = es.cur_step
               /\ valid' = [score |-> score, stop_flag |-> es.stop_flag,
                            update_flag |-> es.update_flag]
               /\ pc' = "update"
               /\ err' = err
    /\ training' = FALSE
    /\ UNCHANGED <<cfg, ev, warnings, saved_model_file, start_epoch, best_valid_result,
                   train_loss_dict, epochs, eval_step, optim, train_stage, args,
                   loop, epoch_idx, ep, ret, files, hist, calls>>

\* Mutant of ValidEpoch: self.best_valid_score takes the score of every validation.
ValidEpoch_mutant_best(score) ==
    /\ pc = "valid"
    /\ IF ValidRaises
       THEN /\ pc' = "error"
            /\ err' = "TypeError: _full_sort_batch_eval"
            /\ UNCHANGED <<best_valid_score, cur_step, valid>>
       ELSE LET es == early_stopping(score, best_valid_score, cur_step,
                                     cfg.stopping_step, cfg.valid_metric_bigger)
            IN /\ best_valid_score' = score
               /\ cur_step' = es.cur_step
               /\ valid' = [score |-> score, stop_flag |-> es.stop_flag,
                            update_flag |-> es.update_flag]
               /\ pc' = "update"
               /\ err' = err
    /\ training' = FALSE
    /\ UNCHANGED <<cfg, ev, warnings, saved_model_file, start_epoch, best_valid_result,
                   train_loss_dict, epochs, eval_step, optim, train_stage, args,
                   loop, epoch_idx, ep, ret, files, hist, calls>>

\* _valid_epoch and the early_stopping call that follows it
ValidEpoch(score) ==
    /\ pc = "valid"
    /\ IF ValidRaises
       THEN /\ pc' = "error"
            /\ err' = "TypeError: _full_sort_batch_eval"
            /\ UNCHANGED <<best_valid_score, cur_step, valid>>
       ELSE LET es == early_stopping(score, best_valid_score, cur_step,
                                     cfg.stopping_step, cfg.valid_metric_bigger)
            IN /\ best_valid_score' = es.best
               /\ cur_step' = es.cur_step
               /\ valid' = [score |-> score, stop_flag |-> es.stop_flag,
                            update_flag |-> es.update_flag]
               /\ pc' = "update"
               /\ err' = err
    /\ training' = FALSE
    /\ UNCHANGED <<cfg, ev, warnings, saved_model_file, start_epoch, best_valid_result,
                   train_loss_dict, epochs, eval_step, optim, train_stage, args,
                   loop, epoch_idx, ep, ret, files, hist, calls>>

\* Mutant of UpdateBest: the checkpoint is written outside `if update_flag:`.
UpdateBest_mutant ==
    /\ pc = "update"
    /\ IF args.saved
       THEN IF loop = "pretrain" THEN SavePretrained(epoch_idx)
                                 ELSE SaveCheckpoint(epoch_idx)
       ELSE UNCHANGED files
    /\ best_valid_result' = IF valid.update_flag THEN Some(valid.score)
                                                 ELSE best_valid_result
    /\ pc' = IF loop = "pretrain" THEN "stop_check" ELSE "callback"
    /\ UNCHANGED <<cfg, ev, warnings, training, err, saved_model_file, start_epoch, cur_step,
                   best_valid_score, train_loss_dict, epochs, eval_step, optim,
                   train_stage, locals, ret, hist, calls>>

\* `if update_flag:` the checkpoint is written (when saved) and the result kept
UpdateBest ==
    /\ pc = "update"
    /\ IF valid.update_flag
       THEN /\ IF args.saved
               THEN IF loop = "pretrain" THEN SavePretrained(epoch_idx)
                                         ELSE SaveCheckpoint(epoch_idx)
               ELSE UNCHANGED files
            /\ best_valid_result' = Some(valid.score)
       ELSE UNCHANGED <<files, best_valid_result>>
    /\ pc' = IF loop = "pretrain" THEN "stop_check" ELSE "callback"
    /\ UNCHANGED <<cfg, ev, warnings, training, err, saved_model_file, start_epoch, cur_step,
                   best_valid_score, train_loss_dict, epochs, eval_step, optim,
                   train_stage, locals, ret, hist, calls>>

\* Mutant of Callback: the call sits inside `if update_flag:`.
Callback_mutant ==
    /\ pc = "callback"
    /\ cb_log' = IF args.callback_fn /\ valid.update_flag
                 THEN Append(cb_log, <<epoch_idx, valid.score>>) ELSE cb_log
    /\ pc' = "stop_check"
    /\ UNCHANGED <<cfg, ev, warnings, training, err, saved_model_file, session, optim, train_stage, locals,
                   ret, files, epochs_run, calls>>

\* `if callback_fn: callback_fn(epoch_idx, valid_score)` (Trainer.fit only)
Callback ==
    /\ pc = "callback"
    /\ cb_log' = IF args.callback_fn
                 THEN Append(cb_log, <<epoch_idx, valid.score>>) ELSE cb_log
    /\ pc' = "stop_check"
    /\ UNCHANGED <<cfg, ev, warnings, training, err, saved_model_file, session, optim, train_stage, locals,
                   ret, files, epochs_run, calls>>

\* Mutant of StopCheck: the break is missing.
StopCheck_mutant ==
    /\ pc = "stop_check"
    /\ pc' = "loop_head"
    /\ epoch_idx' = epoch_idx + 1
    /\ valid' = NoValid
    /\ UNCHANGED <<cfg, ev, warnings, training, err, saved_model_file, session, optim, train_stage, args,
                   loop, ep, ret, files, hist, calls>>

\* `if stop_flag: break`, else the loop goes on to the next epoch
StopCheck ==
    /\ pc = "stop_check"
    /\ IF valid.stop_flag
       THEN /\ pc' = IF loop = "pretrain" THEN "pretrain_tail" ELSE "fit_tail"
            /\ epoch_idx' = epoch_idx
            /\ valid' = valid
       ELSE /\ pc' = "loop_head"
            /\ epoch_idx' = epoch_idx + 1
            /\ valid' = NoValid
    /\ UNCHANGED <<cfg, ev, warnings, training, err, saved_model_file, session, optim, train_stage, args,
                   loop, ep, ret, files, hist, calls>>

\* Trainer.fit after its loop: return (best_valid_score, best_valid_result)
FitTail ==
    /\ pc = "fit_tail"
    /\ ret' = Some(<<best_valid_score, best_valid_result>>)
    /\ valid' = NoValid
    /\ pc' = "idle"
    /\ UNCHANGED <<cfg, ev, warnings, training, err, saved_model_file, session, optim, train_stage, args,
                   loop, epoch_idx, ep, files, hist, calls>>

\* FairGoTrainer.pretrain after its loop: the pretrain checkpoint is loaded back
\* into the model (torch.load raises when the file was never written).
PretrainTail ==
    /\ pc = "pretrain_tail"
    /\ IF disk["pretrain"] = None
       THEN /\ pc' = "error"
            /\ err' = "FileNotFoundError: pretrain checkpoint"
            /\ UNCHANGED <<params, valid>>
       ELSE /\ params' = disk["pretrain"][1].state_dict
            /\ valid' = NoValid
            /\ pc' = "reset_params"
            /\ err' = err
    /\ UNCHANGED <<cfg, ev, warnings, training, saved_model_file, session, optimizer, opt_state,
                   train_stage, args, loop, epoch_idx, ep, ret, files, hist, calls>>

\* Mutant of ResetParams: the best score of the pretrain stage is carried over.
ResetParams_mutant ==
    /\ pc = "reset_params"
    /\ epochs' = cfg.epochs
    /\ eval_step' = Min(cfg.eval_step, cfg.epochs)
    /\ start_epoch' = 0
    /\ cur_step' = 0
    /\ best_valid_score' = best_valid_score
    /\ best_valid_result' = None
    /\ train_loss_dict' = {}
    /\ train_stage' = "finetune"
    /\ pc' = "fit_entry"
    /\ UNCHANGED <<cfg, ev, warnings, training, err, saved_model_file, optim, locals, ret, files, hist, calls>>

\* FairGoTrainer.reset_params
ResetParams ==
    /\ pc = "reset_params"
    /\ epochs' = cfg.epochs
    /\ eval_step' = Min(cfg.eval_step, cfg.epochs)
    /\ start_epoch' = 0
    /\ cur_step' = 0
    /\ best_valid_score' = WorstScore(cfg.valid_metric_bigger)
    /\ best_valid_result' = None
    /\ train_loss_dict' = {}
    /\ train_stage' = "finetune"
    /\ pc' = "fit_entry"
    /\ UNCHANGED <<cfg, ev, warnings, training, err, saved_model_file, optim, locals, ret, files, hist, calls>>

\* ------------------------------------------------------- specification
Next ==
    \/ \E ck \in ExtCheckpoints, pre \in ExtPretrainChoices : ResumeExt(ck, pre)
    \/ ResumeOwn
    \/ SetForeignStage
    \/ \E a \in FitArgs : CallFit(a)
    \/ PretrainEntry
    \/ FitEntry
    \/ EpochStart
    \/ LoopExit
    \/ \E m \in MaskDraws : SampleMask(m)
    \/ \E loss \in {"finite", "nan"} : TrainBatch(loss)
    \/ PassEnd
    \/ AfterTrain
    \/ \E score \in Scores : ValidEpoch(score)
    \/ UpdateBest
    \/ Callback
    \/ StopCheck
    \/ FitTail
    \/ PretrainTail
    \/ ResetParams

Init == InitOf(Configs)

Spec == Init /\ [][Next]_vars

\* The plain Trainer alone: the operations its class has
InitFit == InitOf(FitConfigs)

NextFit ==
    \/ \E ck \in ExtCheckpoints : ResumeExt(ck, FALSE)
    \/ ResumeOwn
    \/ \E a \in FitArgs : CallFit(a)
    \/ FitEntry
    \/ EpochStart
    \/ LoopExit
    \/ \E loss \in {"finite", "nan"} : TrainBatch(loss)
    \/ PassEnd
    \/ AfterTrain
    \/ \E score \in Scores : ValidEpoch(score)
    \/ UpdateBest
    \/ Callback
    \/ StopCheck
    \/ FitTail

SpecFit == InitFit /\ [][NextFit]_vars

\* early_stopping alone, applied again and again to the (best, step) it returned,
\* from any held best score and step.
MaxCalls == 6           \* early_stopping is applied until the step exceeds this

ESConfigs == TrainerConfigs({1}, {1}, 1..MaxStoppingStep, BOOLEAN)

InitES ==
    /\ cfg \in ESConfigs
    /\ pc = "es"
    /\ err = ""
    /\ disk = [f \in Files |-> None]
    /\ saved_model_file = "own"
    /\ start_epoch = 0
    /\ cur_step \in 0..MaxStoppingStep
    /\ best_valid_score \in Scores \cup {WorstScore(cfg.valid_metric_bigger)}
    /\ best_valid_result = None
    /\ train_loss_dict = {}
    /\ epochs = cfg.epochs
    /\ eval_step = Min(cfg.eval_step, cfg.epochs)
    /\ optimizer = "base"
    /\ opt_state = [r \in Roles |-> 0]
    /\ params = 0
    /\ train_stage = "unset"
    /\ args = NoArgs
    /\ loop = "fit"
    /\ epoch_idx = 0
    /\ valid = NoValid
    /\ ep = NoEp
    /\ ret = None
    /\ ckpt_log = <<>>
    /\ cb_log = <<>>
    /\ epochs_run = <<>>
    /\ calls = <<>>
    /\ ev = NoEv
    /\ warnings = <<>>
    /\ training = TRUE

\* Mutant of ESUpdate: the returned step is dropped, self.cur_step keeps its value.
ESUpdate_mutant(score) ==
    /\ pc = "es"
    /\ cur_step <= MaxCalls
    /\ LET es == early_stopping(score, best_valid_score, cur_step,
                                cfg.stopping_step, cfg.valid_metric_bigger)
       IN /\ best_valid_score' = es.best
          /\ cur_step' = cur_step
          /\ valid' = [score |-> score, stop_flag |-> es.stop_flag,
                       update_flag |-> es.update_flag]
    /\ UNCHANGED <<cfg, ev, warnings, training, pc, err, saved_model_file, start_epoch, best_valid_result,
                   train_loss_dict, epochs, eval_step, optim, train_stage, args,
                   loop, epoch_idx, ep, ret, files, hist, calls>>

\* The early_stopping call of fit, its four results stored as fit stores them
ESUpdate(score) ==
    /\ pc = "es"
    /\ cur_step <= MaxCalls
    /\ LET es == early_stopping(score, best_valid_score, cur_step,
                                cfg.stopping_step, cfg.valid_metric_bigger)
       IN /\ best_valid_score' = es.best
          /\ cur_step' = es.cur_step
          /\ valid' = [score |-> score, stop_flag |-> es.stop_flag,
                       update_flag |-> es.update_flag]
    /\ UNCHANGED <<cfg, ev, warnings, training, pc, err, saved_model_file, start_epoch, best_valid_result,
                   train_loss_dict, epochs, eval_step, optim, train_stage, args,
                   loop, epoch_idx, ep, ret, files, hist, calls>>

NextES == \E score \in Scores : ESUpdate(score)

SpecES == InitES /\ [][NextES]_vars

\* ------------------------------------------------------------ evaluation
MaxEvalBatches == 2     \* len(eval_data) ranges over 0..MaxEvalBatches

\* The names config['sst_attr_list'] can hold; a list may repeat a name
AttrNames == 1..MaxSst

\* PFCNTrainer sessions, over every list of sst_num attribute names
EvalConfigs ==
    UNION { { [c EXCEPT !.sst_attr_list = a] : a \in [1..c.sst_num -> AttrNames] } :
            c \in PFCNConfigs({1}, {1}, {1}, {TRUE}) }

\* itertools.combinations(attrs, i), as a sequence of lists in the order it
\* yields them: the lists of i positions lo <= p1 < ... < pi <= Len(attrs), in
\* lexicographic order of the positions, each mapped to the names it selects.
RECURSIVE Combinations(_, _, _)
Combinations(attrs, lo, i) ==
    IF i = 0 THEN << <<>> >>
    ELSE IF Len(attrs) - lo + 1 < i THEN <<>>
    ELSE LET with == Combinations(attrs, lo + 1, i - 1)
             without == Combinations(attrs, lo + 1, i)
         IN [k \in 1..Len(with) |-> <<attrs[lo]>> \o with[k]] \o without

\* '{}-{}'.format(self.config['filter_mode'], sst_list)
ResultLabel(sst_list) == <<"filter", sst_list>>

\* final_result[label] = result on a dict that keeps insertion order: a label
\* already present keeps its place and takes the new result
ResultPut(d, label, result) ==
    IF \E k \in 1..Len(d) : d[k][1] = label
    THEN [k \in 1..Len(d) |-> IF d[k][1] = label THEN <<label, result>> ELSE d[k]]
    ELSE Append(d, <<label, result>>)

\* `not eval_data`: the loader is None or has no batch
EvalDataFalsy(data, n) == data = "none" \/ n = 0

EvalData == {<<"none", 0>>} \cup ({"neg", "full"} \X (0..MaxEvalBatches))

InitEval ==
    /\ cfg \in EvalConfigs
    /\ pc = "idle"
    /\ err = ""
    /\ disk \in {[f \in Files |-> IF f \in held THEN Some(ExtCheckpoint(0, "same", TRUE))
                                               ELSE None] :
                  held \in SUBSET {"own", "ext"}}
    /\ saved_model_file = "own"
    /\ start_epoch = 0
    /\ cur_step = 0
    /\ best_valid_score = WorstScore(cfg.valid_metric_bigger)
    /\ best_valid_result = None
    /\ train_loss_dict = {}
    /\ epochs = cfg.epochs
    /\ eval_step = Min(cfg.eval_step, cfg.epochs)
    /\ optimizer = "base"
    /\ opt_state = [r \in Roles |-> 0]
    /\ params = 0
    /\ train_stage = "unset"
    /\ args = NoArgs
    /\ loop = "fit"
    /\ epoch_idx = 0
    /\ valid = NoValid
    /\ ep = NoEp
    /\ ret = None
    /\ ckpt_log = <<>>
    /\ cb_log = <<>>
    /\ epochs_run = <<>>
    /\ calls = <<>>
    /\ ev = NoEv
    /\ warnings = <<>>
    /\ training = TRUE

\* What no step of an evaluation touches
evalKeep == <<cfg, warnings, disk, saved_model_file, session, optimizer, opt_state,
              train_stage, locals, ret, ckpt_log, hist>>

\* The same and the mode of the model, for the steps after model.eval()
evalFrame == <<evalKeep, training>>

\* The checkpoint file evaluate loads: model_file or self.saved_model_file
EvalFile(model_file) == IF model_file = None THEN saved_model_file ELSE model_file[1]

\* PFCNTrainer.evaluate(eval_data, load_best_model, model_file), up to its loops:
\* the early return on `not eval_data`, the reload of the checkpoint (torch.load
\* raises on a missing file), model.eval() and the choice of eval_func.
CallEvaluate(data, n, load_best_model, model_file) ==
    /\ pc = "idle"
    /\ ev.op = "none"
    /\ cfg.variant = "PFCN"
    /\ calls' = Append(calls, "evaluate")
    /\ IF EvalDataFalsy(data, n)
       THEN /\ ev' = [op |-> "returned", eval_data |-> <<data, n>>, result |-> None,
                      log |-> <<>>]
            /\ UNCHANGED <<pc, err, params, training>>
       ELSE IF load_best_model /\ disk[EvalFile(model_file)] = None
       THEN /\ pc' = "error"
            /\ err' = "FileNotFoundError: checkpoint"
            /\ ev' = [op |-> "evaluate", eval_data |-> <<data, n>>, log |-> <<>>]
            /\ UNCHANGED <<params, training>>
       ELSE /\ params' = IF load_best_model
                         THEN disk[EvalFile(model_file)][1].state_dict ELSE params
            /\ ev' = [op |-> "evaluate", eval_data |-> <<data, n>>, n |-> n,
                      eval_func |-> data, size |-> 1, sst_lists |-> <<>>, sst_list |-> None,
                      batch_idx |-> 0, pass_batches |-> <<>>,
                      final_result |-> <<>>, result |-> None,
                      log |-> << <<"model.eval">> >>]
            /\ pc' = IF cfg.filter_on THEN "eval_size" ELSE "eval_batch"
            /\ err' = err
            /\ training' = FALSE
    /\ UNCHANGED evalKeep

\* `for i in range(1, self.sst_num + 1)`: the lists of size i are built, or the
\* loop is exhausted and evaluate returns final_result
EvalSize ==
    /\ pc = "eval_size"
    /\ IF ev.size <= cfg.sst_num
       THEN /\ ev' = [ev EXCEPT !.sst_lists = Combinations(cfg.sst_attr_list, 1, ev.size)]
            /\ pc' = "eval_subset"
       ELSE /\ ev' = [ev EXCEPT !.op = "returned", !.result = Some(ev.final_result)]
            /\ pc' = "idle"
    /\ UNCHANGED <<evalFrame, err, params, calls>>

\* Mutant of EvalSubset: the batches are an iterator that is not restarted, so a
\* later pass begins where the previous one ended.
EvalSubset_mutant ==
    /\ pc = "eval_subset"
    /\ IF ev.sst_lists # <<>>
       THEN /\ ev' = [ev EXCEPT !.sst_list = Some(Head(ev.sst_lists)),
                                !.sst_lists = Tail(ev.sst_lists),
                                !.pass_batches = <<>>]
            /\ pc' = "eval_batch"
       ELSE /\ ev' = [ev EXCEPT !.size = @ + 1]
            /\ pc' = "eval_size"
    /\ UNCHANGED <<evalFrame, err, params, calls>>

\* `for sst_list in sst_lists`: the next list starts its pass over the batches,
\* or the lists of this size are exhausted
EvalSubset ==
    /\ pc = "eval_subset"
    /\ IF ev.sst_lists # <<>>
       THEN /\ ev' = [ev EXCEPT !.sst_list = Some(Head(ev.sst_lists)),
                                !.sst_lists = Tail(ev.sst_lists),
                                !.batch_idx = 0, !.pass_batches = <<>>]
            /\ pc' = "eval_batch"
       ELSE /\ ev' = [ev EXCEPT !.size = @ + 1]
            /\ pc' = "eval_size"
    /\ UNCHANGED <<evalFrame, err, params, calls>>

\* One evaluation batch: eval_func(batched_data, sst_list) with a filter,
\* eval_func(batched_data) without, then eval_collector.eval_batch_collect.
\* _full_sort_batch_eval takes one argument, so the call with sst_list raises.
EvalBatch ==
    /\ pc = "eval_batch"
    /\ ev.batch_idx < ev.n
    /\ IF cfg.filter_on /\ ev.eval_func = "full"
       THEN /\ pc' = "error"
            /\ err' = "TypeError: _full_sort_batch_eval"
            /\ ev' = ev
       ELSE /\ ev' = [ev EXCEPT !.batch_idx = @ + 1,
                                !.pass_batches = Append(@, ev.batch_idx),
                                !.log = Append(@, <<"collect", ev.sst_list, ev.batch_idx>>)]
            /\ UNCHANGED <<pc, err>>
    /\ UNCHANGED <<evalFrame, params, calls>>

\* After the last batch of a pass: model_collect, get_data_struct,
\* evaluator.evaluate(struct), and the result is stored under its label; without
\* a filter the single pass ends evaluate.
EvalAggregate ==
    /\ pc = "eval_batch"
    /\ ev.batch_idx = ev.n
    /\ LET result == [sst_list |-> ev.sst_list, batches |-> ev.pass_batches]
           logged == Append(ev.log, <<"aggregate", ev.sst_list>>)
       IN IF cfg.filter_on
          THEN /\ ev' = [ev EXCEPT
                           !.final_result = ResultPut(@, ResultLabel(ev.sst_list[1]), result),
                           !.log = logged]
               /\ pc' = "eval_subset"
          ELSE /\ ev' = [ev EXCEPT
                           !.final_result = ResultPut(@, "none", result),
                           !.op = "returned",
                           !.result = Some(ResultPut(ev.final_result, "none", result)),
                           !.log = logged]
               /\ pc' = "idle"
    /\ UNCHANGED <<evalFrame, err, params, calls>>

\* Every list the loops `for i in range(1, sst_num + 1)` / `for sst_list in
\* combinations(sst_attr_list, i)` visit from size i on, in order
RECURSIVE SubsetsFrom(_, _)
SubsetsFrom(attrs, i) ==
    IF i > Len(attrs) THEN <<>>
    ELSE Combinations(attrs, 1, i) \o SubsetsFrom(attrs, i + 1)

\* PFCNTrainer.pfcn_evaluate(eval_data, load_best_model, model_file), the pass
\* _valid_epoch runs, up to its batch loop
CallPfcnEvaluate(data, n, load_best_model, model_file) ==
    /\ pc = "idle"
    /\ ev.op = "none"
    /\ cfg.variant = "PFCN"
    /\ calls' = Append(calls, "pfcn_evaluate")
    /\ IF EvalDataFalsy(data, n)
       THEN /\ ev' = [op |-> "returned", eval_data |-> <<data, n>>, result |-> None,
                      log |-> <<>>]
            /\ UNCHANGED <<pc, err, params, training>>
       ELSE IF load_best_model /\ disk[EvalFile(model_file)] = None
       THEN /\ pc' = "error"
            /\ err' = "FileNotFoundError: checkpoint"
            /\ ev' = [op |-> "pfcn_evaluate", eval_data |-> <<data, n>>, log |-> <<>>]
            /\ UNCHANGED <<params, training>>
       ELSE /\ params' = IF load_best_model
                         THEN disk[EvalFile(model_file)][1].state_dict ELSE params
            /\ ev' = [op |-> "pfcn_evaluate", eval_data |-> <<data, n>>, n |-> n,
                      eval_func |-> data, batch_idx |-> 0, result |-> None,
                      log |-> << <<"model.eval">> >>]
            /\ pc' = "pfcn_batch"
            /\ err' = err
            /\ training' = FALSE
    /\ UNCHANGED evalKeep

\* One iteration of the batch loop of pfcn_evaluate: with a filter the batch is
\* scored and collected once for every attribute list, without one once
\* (_full_sort_batch_eval takes one argument, so the call with sst_list raises)
PfcnBatch ==
    /\ pc = "pfcn_batch"
    /\ ev.batch_idx < ev.n
    /\ IF cfg.filter_on /\ ev.eval_func = "full"
       THEN /\ pc' = "error"
            /\ err' = "TypeError: _full_sort_batch_eval"
            /\ ev' = ev
       ELSE LET lists == IF cfg.filter_on
                         THEN [k \in 1..Len(SubsetsFrom(cfg.sst_attr_list, 1)) |->
                                  Some(SubsetsFrom(cfg.sst_attr_list, 1)[k])]
                         ELSE <<None>>
            IN /\ ev' = [ev EXCEPT !.batch_idx = @ + 1,
                                   !.log = @ \o [k \in 1..Len(lists) |->
                                                   <<"collect", lists[k], ev.batch_idx>>]]
               /\ UNCHANGED <<pc, err>>
    /\ UNCHANGED <<evalFrame, params, calls>>

\* pfcn_evaluate after its batch loop: model_collect, get_data_struct,
\* evaluator.evaluate(struct) once, and the result is returned
PfcnAggregate ==
    /\ pc = "pfcn_batch"
    /\ ev.batch_idx = ev.n
    /\ ev' = [ev EXCEPT !.op = "returned",
                        !.result = Some([collected |-> SelectSeq(ev.log,
                                             LAMBDA e : e[1] = "collect")]),
                        !.log = Append(@, <<"aggregate", None>>)]
    /\ pc' = "idle"
    /\ UNCHANGED <<evalFrame, err, params, calls>>

NextEval ==
    \/ \E d \in EvalData, lbm \in BOOLEAN, mf \in {None, Some("ext")} :
          CallEvaluate(d[1], d[2], lbm, mf)
    \/ \E d \in EvalData, lbm \in BOOLEAN, mf \in {None, Some("ext")} :
          CallPfcnEvaluate(d[1], d[2], lbm, mf)
    \/ PfcnBatch
    \/ PfcnAggregate
    \/ EvalSize
    \/ EvalSubset
    \/ EvalBatch
    \/ EvalAggregate

SpecEval == InitEval /\ [][NextEval]_vars

\* ------------------------------------------------------- split prediction
MaxBatchRows == 4       \* batch_size ranges over 1..MaxBatchRows
MaxChunk == 3           \* config['test_batch_size'] ranges over 1..MaxChunk
RowVals == 1..2         \* what a row of an interaction can hold

\* The fields of a session just constructed, other than cfg, pc, disk and ev
FreshFields ==
    /\ err = ""
    /\ saved_model_file = "own"
    /\ start_epoch = 0
    /\ cur_step = 0
    /\ best_valid_score = WorstScore(cfg.valid_metric_bigger)
    /\ best_valid_result = None
    /\ train_loss_dict = {}
    /\ epochs = cfg.epochs
    /\ eval_step = Min(cfg.eval_step, cfg.epochs)
    /\ optimizer = "base"
    /\ opt_state = [r \in Roles |-> 0]
    /\ params = 0
    /\ train_stage = "unset"
    /\ args = NoArgs
    /\ loop = "fit"
    /\ epoch_idx = 0
    /\ valid = NoValid
    /\ ep = NoEp
    /\ ret = None
    /\ ckpt_log = <<>>
    /\ cb_log = <<>>
    /\ epochs_run = <<>>
    /\ calls = <<>>
    /\ warnings = <<>>
    /\ training = TRUE

\* Every non-empty sequence of at most n elements of S
SeqsUpTo(S, n) == UNION { [1..k -> S] : k \in 1..n }

\* tensor.split(size, dim=0): chunks of `size` rows in order, the last one shorter
\* when the length is not a multiple
RECURSIVE TensorSplit(_, _)
TensorSplit(rows, size) ==
    IF Len(rows) <= size THEN <<rows>>
    ELSE <<SubSeq(rows, 1, size)>> \o TensorSplit(SubSeq(rows, size + 1, Len(rows)), size)

\* The score the model gives one row (with the revealed subset, in PFCNTrainer):
\* a value that tells rows and subsets apart
PredictRow(row, sst_list) == 10 * row + (IF sst_list = None THEN 0 ELSE Len(sst_list[1]))

\* self.model.predict(interaction[, sst_list]): one score per row; a model that
\* squeezes its output returns a 0-dim tensor for a single row
Predict(rows, sst_list, squeezes) ==
    [dim0 |-> squeezes /\ Len(rows) = 1,
     v |-> [k \in 1..Len(rows) |-> PredictRow(rows[k], sst_list)]]

\* `if len(result.shape) == 0: result = result.unsqueeze(0)`
Unsqueeze0(t) == IF t.dim0 THEN [t EXCEPT !.dim0 = FALSE] ELSE t

\* torch.cat(result_list, dim=0) of 1-dim tensors
RECURSIVE TorchCat(_)
TorchCat(ts) == IF ts = <<>> THEN <<>> ELSE Head(ts).v \o TorchCat(Tail(ts))

PredictConfigs ==
    TrainerConfigs({1}, {1}, {1}, {TRUE})
    \cup {c \in PFCNConfigs({1}, {1}, {1}, {TRUE}) :
            c.filter_on /\ c.train_epoch_interval = 1 /\ c.sst_num = 1}

\* A session about to run _spilt_predict(interaction, batch_size[, sst_list])
InitPredict ==
    /\ cfg \in PredictConfigs
    /\ pc = "split_entry"
    /\ disk = [f \in Files |-> None]
    /\ FreshFields
    /\ ev \in {[op |-> "_spilt_predict", rows |-> rows, batch_size |-> Len(rows),
                test_batch_size |-> c, squeezes |-> q,
                sst_list |-> IF cfg.variant = "PFCN" THEN Some(cfg.sst_attr_list) ELSE None,
                spilt |-> <<>>, num_block |-> 0, i |-> 0,
                predicted |-> <<>>, result_list |-> <<>>, result |-> None] :
               rows \in SeqsUpTo(RowVals, MaxBatchRows), c \in 1..MaxChunk,
               q \in BOOLEAN}

\* What no step of _spilt_predict touches
predictFrame == <<evalFrame, err, params, calls>>

\* Mutant of SplitEntry: num_block = batch_size // self.test_batch_size.
SplitEntry_mutant ==
    /\ pc = "split_entry"
    /\ ev' = [ev EXCEPT !.spilt = TensorSplit(ev.rows, ev.test_batch_size),
                        !.num_block = ev.batch_size \div ev.test_batch_size]
    /\ pc' = "split_loop"
    /\ UNCHANGED predictFrame

\* _spilt_predict up to its loop: every tensor is split and
\* num_block = (batch_size + test_batch_size - 1) // test_batch_size
SplitEntry ==
    /\ pc = "split_entry"
    /\ ev' = [ev EXCEPT !.spilt = TensorSplit(ev.rows, ev.test_batch_size),
                        !.num_block = (ev.batch_size + ev.test_batch_size - 1)
                                          \div ev.test_batch_size]
    /\ pc' = "split_loop"
    /\ UNCHANGED predictFrame

\* One iteration of `for i in range(num_block)`: chunk i is predicted, a 0-dim
\* result is unsqueezed, the result is appended (spilt_tensor[i] raises past the
\* last chunk)
SplitBlock ==
    /\ pc = "split_loop"
    /\ ev.i < ev.num_block
    /\ IF ev.i + 1 > Len(ev.spilt)
       THEN /\ pc' = "error"
            /\ err' = "IndexError: tuple index out of range"
            /\ ev' = ev
       ELSE LET chunk == ev.spilt[ev.i + 1]
                result == Unsqueeze0(Predict(chunk, ev.sst_list, ev.squeezes))
            IN /\ ev' = [ev EXCEPT !.i = @ + 1,
                                   !.predicted = Append(@, chunk),
                                   !.result_list = Append(@, result)]
               /\ UNCHANGED <<pc, err>>
    /\ UNCHANGED <<evalFrame, params, calls>>

\* After the loop: return torch.cat(result_list, dim=0)
SplitCat ==
    /\ pc = "split_loop"
    /\ ev.i = ev.num_block
    /\ ev' = [ev EXCEPT !.result = Some(TorchCat(ev.result_list))]
    /\ pc' = "split_done"
    /\ UNCHANGED predictFrame

NextPredict ==
    \/ SplitEntry
    \/ SplitBlock
    \/ SplitCat

SpecPredict == InitPredict /\ [][NextPredict]_vars

\* -------------------------------------------------- full-ranking batch scores
MaxUsers == 2           \* a batch holds 1..MaxUsers users, ids in 1..MaxUsers
MaxItems == 3           \* tot_item_num ranges over 1..MaxItems (item 0 is padding)

\* The models scored: "dense" gives every pair a finite score, "sparse" gives
\* a user the score -inf for the item whose id equals the user's
Models == {"dense", "sparse"}

\* The score the model gives one (user id, item id) pair
ModelScore(uid, item, m) ==
    IF m = "sparse" /\ item = uid THEN NegInf ELSE 10 * uid + item

\* The cells of a scores tensor of shape (users, items), indexed from 0
Cells(users, items) == (0..(users - 1)) \X (0..(items - 1))

\* model.full_sort_predict(interaction) followed by view(-1, tot_item_num)
FullSortPredict(interaction, items, m) ==
    [c \in Cells(Len(interaction), items) |-> ModelScore(interaction[c[1] + 1], c[2], m)]

\* interaction.repeat_interleave(tot_item_num) updated with
\* item_tensor.repeat(inter_len): row k pairs user k // tot_item_num with item
\* k % tot_item_num
RepeatedInter(interaction, items) ==
    [k \in 1..(Len(interaction) * items) |->
        <<interaction[((k - 1) \div items) + 1], (k - 1) % items>>]

\* self.model.predict(new_inter): one score per (user, item) row
PredictPairs(pairs, m) == [k \in 1..Len(pairs) |-> ModelScore(pairs[k][1], pairs[k][2], m)]

\* The except branch: predict at once when the rows fit in test_batch_size,
\* through _spilt_predict otherwise
FallbackScores(interaction, items, size, m) ==
    LET new_inter == RepeatedInter(interaction, items)
        batch_size == Len(new_inter)
        spilt == TensorSplit(new_inter, size)
        num_block == (batch_size + size - 1) \div size
    IN IF batch_size <= size
       THEN PredictPairs(new_inter, m)
       ELSE TorchCat([i \in 1..num_block |->
                         [dim0 |-> FALSE, v |-> PredictPairs(spilt[i], m)]])

\* scores.view(-1, tot_item_num) of a flat tensor: cell (u, i) is element u * items + i
View(flat, items) ==
    [c \in Cells(Len(flat) \div items, items) |-> flat[c[1] * items + c[2] + 1]]

\* Mutant of MaskScores: the padding column is left as the model scored it.
MaskScores_mutant(scores, history_index) ==
    [c \in DOMAIN scores |->
        IF history_index # None /\ c \in history_index[1] THEN NegInf
        ELSE scores[c]]

\* scores[:, 0] = -np.inf; if history_index is not None: scores[history_index] = -np.inf
MaskScores(scores, history_index) ==
    [c \in DOMAIN scores |->
        IF c[2] = 0 THEN NegInf
        ELSE IF history_index # None /\ c \in history_index[1] THEN NegInf
        ELSE scores[c]]

\* The history_index a loader can hand over for a batch: None for a dataset
\* without history, or the cells of the users' history items (none, one or two)
HistoryChoices(users, items) ==
    {None, Some({})} \cup {Some({a, b}) : a \in Cells(users, items), b \in Cells(users, items)}

\* The batches of a full-ranking loader: each user once
UserBatches == {q \in SeqsUpTo(1..MaxUsers, MaxUsers) : \A i, j \in DOMAIN q : q[i] = q[j] => i = j}

\* A session about to run _full_sort_batch_eval(batched_data)
InitFullSort ==
    /\ cfg \in TrainerConfigs({1}, {1}, {1}, {TRUE})
    /\ pc = "full_sort_entry"
    /\ disk = [f \in Files |-> None]
    /\ FreshFields
    /\ ev \in UNION { UNION {
                {[op |-> "_full_sort_batch_eval", interaction |-> inter,
                  tot_item_num |-> items, history_index |-> h, model |-> m,
                  implemented |-> impl, test_batch_size |-> size, scores |-> None] :
                    h \in HistoryChoices(Len(inter), items), m \in Models,
                    impl \in BOOLEAN, size \in 1..MaxChunk} :
                inter \in UserBatches } : items \in 1..MaxItems }

\* _full_sort_batch_eval when the model implements full_sort_predict
FullSortDirect ==
    /\ pc = "full_sort_entry"
    /\ ev.implemented
    /\ ev' = [ev EXCEPT !.scores =
                Some(MaskScores(FullSortPredict(ev.interaction, ev.tot_item_num, ev.model),
                                ev.history_index))]
    /\ pc' = "full_sort_done"
    /\ UNCHANGED predictFrame

\* _full_sort_batch_eval when full_sort_predict raises NotImplementedError
FullSortFallback ==
    /\ pc = "full_sort_entry"
    /\ ~ev.implemented
    /\ ev' = [ev EXCEPT !.scores =
                Some(MaskScores(View(FallbackScores(ev.interaction, ev.tot_item_num,
                                                    ev.test_batch_size, ev.model),
                                     ev.tot_item_num),
                                ev.history_index))]
    /\ pc' = "full_sort_done"
    /\ UNCHANGED predictFrame

NextFullSort ==
    \/ FullSortDirect
    \/ FullSortFallback

SpecFullSort == InitFullSort /\ [][NextFullSort]_vars

\* ------------------------------------------------------ optimizer construction
\* config['learner'] values: recognized names in several spellings, and others
Learners == {"adam", "Adam", "SGD", "adagrad", "RMSprop", "sparse_adam", "adamw", ""}

\* str.lower() on the names above
Lower(name) ==
    CASE name = "Adam" -> "adam"
      [] name = "SGD" -> "sgd"
      [] name = "RMSprop" -> "rmsprop"
      [] OTHER -> name

\* config['weight_decay'] and config['reg_weight']: unset, zero or positive
DecayVals == {None, Some(0), Some(1)}

\* Python truthiness of an optional number
Truthy(x) == x # None /\ x[1] # 0

BuildConfigs ==
    TrainerConfigs({1}, {1}, {1}, {TRUE})
    \cup {c \in FairGoConfigs({1}, {1}, {1}, {TRUE}) :
            c.train_epoch_interval = 1 /\ c.sst_num = 1 /\ c.pretrain_epochs = 1}
    \cup {c \in PFCNConfigs({1}, {1}, {1}, {TRUE}) :
            c.train_epoch_interval = 1 /\ c.sst_num = 1}

\* The optimizers a trainer class builds while it is constructed, in order
BuildOrder(c) ==
    <<"base">> \o
    (IF c.variant = "FairGo"
     THEN (IF c.load_pretrain_weight THEN <<>> ELSE <<"pretrain">>) \o <<"dis", "filter">>
     ELSE IF c.variant = "PFCN" /\ c.filter_on THEN <<"filter", "dis">>
     ELSE <<>>)

\* A trainer under construction, before its first _build_optimizer call
InitBuild ==
    /\ cfg \in BuildConfigs
    /\ pc = "build"
    /\ disk = [f \in Files |-> None]
    /\ FreshFields
    /\ ev \in {[op |-> "__init__", learner |-> l, weight_decay |-> w, reg_weight |-> r,
                todo |-> BuildOrder(cfg), built |-> <<>>] :
               l \in Learners, w \in DecayVals, r \in DecayVals}

\* What no _build_optimizer call touches
buildFrame == <<cfg, training, disk, saved_model_file, session, optimizer, opt_state,
                train_stage, locals, ret, ckpt_log, hist, params, calls>>

\* The warning about double regularization
RegWarning(w, r) ==
    IF Truthy(r) /\ Truthy(w) /\ w[1] * r[1] > 0 THEN <<"double regularization">> ELSE <<>>

\* Mutant of BuildOptimizer: an unrecognized name raises.
BuildOptimizer_mutant ==
    /\ pc = "build"
    /\ ev.todo # <<>>
    /\ LET role == Head(ev.todo)
           learner == Lower(ev.learner)
           w == ev.weight_decay
           regw == RegWarning(w, ev.reg_weight)
           done(algo, wd, warn) ==
               /\ ev' = [ev EXCEPT !.todo = Tail(@),
                                   !.built = Append(@, [role |-> role, algo |-> algo,
                                                        weight_decay |-> wd])]
               /\ warnings' = warnings \o regw \o warn
               /\ UNCHANGED <<pc, err>>
       IN IF learner \in {"adam", "sgd", "adagrad", "rmsprop"}
          THEN done(learner, w, <<>>)
          ELSE IF learner = "sparse_adam"
          THEN IF w = None
               THEN /\ pc' = "error"
                    /\ err' = "TypeError: weight_decay > 0"
                    /\ ev' = ev
                    /\ warnings' = warnings \o regw
               ELSE done("sparse_adam", None,
                         IF w[1] > 0 THEN <<"sparse adam weight_decay">> ELSE <<>>)
          ELSE /\ pc' = "error"
               /\ err' = "ValueError: unrecognized optimizer"
               /\ ev' = ev
               /\ warnings' = warnings \o regw
    /\ UNCHANGED buildFrame

\* One _build_optimizer(params=...) call of the constructor: the optimizer of
\* the next role is built from config['learner']
BuildOptimizer ==
    /\ pc = "build"
    /\ ev.todo # <<>>
    /\ LET role == Head(ev.todo)
           learner == Lower(ev.learner)
           w == ev.weight_decay
           regw == RegWarning(w, ev.reg_weight)
           done(algo, wd, warn) ==
               /\ ev' = [ev EXCEPT !.todo = Tail(@),
                                   !.built = Append(@, [role |-> role, algo |-> algo,
                                                        weight_decay |-> wd])]
               /\ warnings' = warnings \o regw \o warn
               /\ UNCHANGED <<pc, err>>
       IN IF learner \in {"adam", "sgd", "adagrad", "rmsprop"}
          THEN done(learner, w, <<>>)
          ELSE IF learner = "sparse_adam"
          THEN IF w = None
               THEN /\ pc' = "error"
                    /\ err' = "TypeError: weight_decay > 0"
                    /\ ev' = ev
                    /\ warnings' = warnings \o regw
               ELSE done("sparse_adam", None,
                         IF w[1] > 0 THEN <<"sparse adam weight_decay">> ELSE <<>>)
          ELSE done("adam", None, <<"unrecognized optimizer">>)
    /\ UNCHANGED buildFrame

\* The constructor returns once every optimizer is built
BuildDone ==
    /\ pc = "build"
    /\ ev.todo = <<>>
    /\ pc' = "constructed"
    /\ UNCHANGED <<ev, predictFrame>>

NextBuild ==
    \/ BuildOptimizer
    \/ BuildDone

SpecBuild == InitBuild /\ [][NextBuild]_vars

\* ------------------------------------------- evaluation within a session
\* The metrics evaluator.evaluate reports, in the order of its result
Metrics == <<"recall", "ndcg">>

\* One trainer of each class with a one-epoch budget; the FairGoTrainer with and
\* without config['pretrain_model_file_path']
SessionConfigs ==
    TrainerConfigs({1}, {1}, {1}, {TRUE})
    \cup UNION { { [c EXCEPT !.pretrain_model_file_path = f] : f \in {None, Some("pretrain")} } :
                 c \in {x \in FairGoConfigs({1}, {1}, {1}, {TRUE}) :
                          x.train_epoch_interval = 1 /\ x.sst_num = 1 /\ x.pretrain_epochs = 1} }
    \cup {c \in PFCNConfigs({1}, {1}, {1}, {TRUE}) :
            c.train_epoch_interval = 1 /\ c.sst_num = 1}

\* The constructors.  FairGoTrainer.__init__ with a pretrain_model_file_path
\* keeps the path, loads that file into the model and sets the stage to finetune.
InitSession ==
    /\ cfg \in SessionConfigs
    /\ pc = "idle"
    /\ err = ""
    /\ disk = [f \in Files |-> IF cfg.pretrain_model_file_path = Some(f)
                               THEN Some(ExtPretrained) ELSE None]
    /\ saved_model_file = "own"
    /\ start_epoch = 0
    /\ cur_step = 0
    /\ best_valid_score = WorstScore(cfg.valid_metric_bigger)
    /\ best_valid_result = None
    /\ train_loss_dict = {}
    /\ epochs = cfg.epochs
    /\ eval_step = Min(cfg.eval_step, cfg.epochs)
    /\ optimizer = "base"
    /\ opt_state = [r \in Roles |-> 0]
    /\ params = IF cfg.pretrain_model_file_path # None THEN ExtPretrained.state_dict ELSE 0
    /\ train_stage = IF cfg.variant = "FairGo"
                     THEN (IF cfg.pretrain_model_file_path # None \/ cfg.load_pretrain_weight
                           THEN "finetune" ELSE "pretrain")
                     ELSE "unset"
    /\ args = NoArgs
    /\ loop = "fit"
    /\ epoch_idx = 0
    /\ valid = NoValid
    /\ ep = NoEp
    /\ ret = None
    /\ ckpt_log = <<>>
    /\ cb_log = <<>>
    /\ epochs_run = <<>>
    /\ calls = <<>>
    /\ ev = NoEv
    /\ warnings = <<>>
    /\ training = TRUE

\* self.saved_pretrain_model_file exists: the constructor sets it from
\* config['pretrain_model_file_path'], pretrain() sets it when fit runs the
\* pretrain stage
HasPretrainFile ==
    \/ cfg.pretrain_model_file_path # None
    \/ /\ ~cfg.load_pretrain_weight
       /\ \E i \in 1..Len(calls) : calls[i] = "fit"

\* What no step of Trainer.evaluate or FairGoTrainer.evaluate touches
stageKeep == <<cfg, warnings, disk, saved_model_file, session, optimizer, opt_state,
               locals, ret, ckpt_log, hist>>

\* The same and the mode of the model, for the steps after model.eval()
stageFrame == <<stageKeep, training>>

\* The locals of an evaluate call that goes on to a pass over the batches
EvalLocals(data, n, load_best_model, model_file, stages, log) ==
    [op |-> "evaluate", eval_data |-> <<data, n>>, n |-> n, eval_func |-> data,
     load_best_model |-> load_best_model, model_file |-> model_file,
     stages |-> stages, stage |-> None, batch_idx |-> 0, pass_batches |-> <<>>,
     final_result |-> <<>>, result |-> None, log |-> log]

\* Trainer.evaluate from model.eval() to the batch loop
PassStart == << <<"model.eval">>, <<"model_collect">> >>

\* Mutant of CallEvaluateBase: only an absent loader returns early.
CallEvaluateBase_mutant(data, n, load_best_model, model_file) ==
    /\ pc = "idle"
    /\ ev.op = "none"
    /\ cfg.variant \in {"Trainer", "FairGo"}
    /\ calls' = Append(calls, "evaluate")
    /\ IF data = "none"
       THEN /\ ev' = [op |-> "returned", eval_data |-> <<data, n>>, result |-> None,
                      log |-> <<>>]
            /\ UNCHANGED <<pc, err, params, training>>
       ELSE IF cfg.variant = "FairGo" /\ load_best_model
       THEN /\ ev' = EvalLocals(data, n, load_best_model, model_file,
                                (IF cfg.load_pretrain_weight THEN <<>> ELSE <<"pretrain">>)
                                    \o <<"finetune">>, <<>>)
            /\ pc' = "eval_stage"
            /\ UNCHANGED <<err, params, training>>
       ELSE IF cfg.variant = "Trainer" /\ load_best_model /\ disk[EvalFile(model_file)] = None
       THEN /\ pc' = "error"
            /\ err' = "FileNotFoundError: checkpoint"
            /\ ev' = [op |-> "evaluate", eval_data |-> <<data, n>>, log |-> <<>>]
            /\ UNCHANGED <<params, training>>
       ELSE /\ params' = IF cfg.variant = "Trainer" /\ load_best_model
                         THEN disk[EvalFile(model_file)][1].state_dict ELSE params
            /\ ev' = EvalLocals(data, n, load_best_model, model_file, <<>>,
                                (IF cfg.variant = "Trainer" /\ load_best_model
                                 THEN << <<"load", EvalFile(model_file)>> >> ELSE <<>>)
                                    \o PassStart)
            /\ pc' = "eval_pass"
            /\ err' = err
            /\ training' = FALSE
    /\ UNCHANGED <<stageKeep, train_stage>>

\* Trainer.evaluate(eval_data, load_best_model, model_file) up to its batch loop,
\* and FairGoTrainer.evaluate up to its first stage: the early return on
\* `not eval_data`; FairGoTrainer without load_best_model goes straight to
\* Trainer.evaluate(eval_data)
CallEvaluateBase(data, n, load_best_model, model_file) ==
    /\ pc = "idle"
    /\ ev.op = "none"
    /\ cfg.variant \in {"Trainer", "FairGo"}
    /\ calls' = Append(calls, "evaluate")
    /\ IF EvalDataFalsy(data, n)
       THEN /\ ev' = [op |-> "returned", eval_data |-> <<data, n>>, result |-> None,
                      log |-> <<>>]
            /\ UNCHANGED <<pc, err, params, training>>
       ELSE IF cfg.variant = "FairGo" /\ load_best_model
       THEN /\ ev' = EvalLocals(data, n, load_best_model, model_file,
                                (IF cfg.load_pretrain_weight THEN <<>> ELSE <<"pretrain">>)
                                    \o <<"finetune">>, <<>>)
            /\ pc' = "eval_stage"
            /\ UNCHANGED <<err, params, training>>
       ELSE IF cfg.variant = "Trainer" /\ load_best_model /\ disk[EvalFile(model_file)] = None
       THEN /\ pc' = "error"
            /\ err' = "FileNotFoundError: checkpoint"
            /\ ev' = [op |-> "evaluate", eval_data |-> <<data, n>>, log |-> <<>>]
            /\ UNCHANGED <<params, training>>
       ELSE /\ params' = IF cfg.variant = "Trainer" /\ load_best_model
                         THEN disk[EvalFile(model_file)][1].state_dict ELSE params
            /\ ev' = EvalLocals(data, n, load_best_model, model_file, <<>>,
                                (IF cfg.variant = "Trainer" /\ load_best_model
                                 THEN << <<"load", EvalFile(model_file)>> >> ELSE <<>>)
                                    \o PassStart)
            /\ pc' = "eval_pass"
            /\ err' = err
            /\ training' = FALSE
    /\ UNCHANGED <<stageKeep, train_stage>>

\* Mutant of EvalStage: `self.model.train_stage = ...` is missing.
EvalStage_mutant ==
    /\ pc = "eval_stage"
    /\ IF ev.stages = <<>>
       THEN /\ ev' = [ev EXCEPT !.op = "returned", !.result = Some(ev.final_result)]
            /\ pc' = "idle"
            /\ UNCHANGED <<err, params, train_stage, training>>
       ELSE LET s == Head(ev.stages)
                file == IF s = "pretrain" THEN "pretrain" ELSE EvalFile(ev.model_file)
            IN IF s = "pretrain" /\ ~HasPretrainFile
               THEN /\ pc' = "error"
                    /\ err' = "AttributeError: saved_pretrain_model_file"
                    /\ UNCHANGED <<ev, params, train_stage, training>>
               ELSE IF disk[file] = None
               THEN /\ pc' = "error"
                    /\ err' = "FileNotFoundError: checkpoint"
                    /\ UNCHANGED <<ev, params, train_stage, training>>
               ELSE /\ params' = disk[file][1].state_dict
                    /\ train_stage' = train_stage
                    /\ ev' = [ev EXCEPT !.stages = Tail(@), !.stage = Some(s),
                                        !.batch_idx = 0, !.pass_batches = <<>>,
                                        !.log = @ \o << <<"load", file>>, <<"stage", s>> >>
                                                  \o PassStart]
                    /\ pc' = "eval_pass"
                    /\ err' = err
                    /\ training' = FALSE
    /\ UNCHANGED <<stageKeep, calls>>

\* FairGoTrainer.evaluate with load_best_model, one stage: the stage's checkpoint
\* is loaded (the pretrain stage reads self.saved_pretrain_model_file, the
\* finetune stage model_file or self.saved_model_file), train_stage is set and
\* Trainer.evaluate(eval_data) starts; after the last stage result is returned
EvalStage ==
    /\ pc = "eval_stage"
    /\ IF ev.stages = <<>>
       THEN /\ ev' = [ev EXCEPT !.op = "returned", !.result = Some(ev.final_result)]
            /\ pc' = "idle"
            /\ UNCHANGED <<err, params, train_stage, training>>
       ELSE LET s == Head(ev.stages)
                file == IF s = "pretrain" THEN "pretrain" ELSE EvalFile(ev.model_file)
            IN IF s = "pretrain" /\ ~HasPretrainFile
               THEN /\ pc' = "error"
                    /\ err' = "AttributeError: saved_pretrain_model_file"
                    /\ UNCHANGED <<ev, params, train_stage, training>>
               ELSE IF disk[file] = None
               THEN /\ pc' = "error"
                    /\ err' = "FileNotFoundError: checkpoint"
                    /\ UNCHANGED <<ev, params, train_stage, training>>
               ELSE /\ params' = disk[file][1].state_dict
                    /\ train_stage' = s
                    /\ ev' = [ev EXCEPT !.stages = Tail(@), !.stage = Some(s),
                                        !.batch_idx = 0, !.pass_batches = <<>>,
                                        !.log = @ \o << <<"load", file>>, <<"stage", s>> >>
                                                  \o PassStart]
                    /\ pc' = "eval_pass"
                    /\ err' = err
                    /\ training' = FALSE
    /\ UNCHANGED <<stageKeep, calls>>

\* Mutant of EvalPassBatch: the batch is scored but not handed to the collector.
EvalPassBatch_mutant ==
    /\ pc = "eval_pass"
    /\ ev.batch_idx < ev.n
    /\ ev' = [ev EXCEPT !.batch_idx = @ + 1,
                        !.log = Append(@, <<"eval_func", ev.batch_idx>>)]
    /\ UNCHANGED <<stageFrame, pc, err, params, train_stage, calls>>

\* One batch of Trainer.evaluate: eval_func(batched_data), then
\* eval_collector.eval_batch_collect(scores, interaction, positive_u, positive_i)
EvalPassBatch ==
    /\ pc = "eval_pass"
    /\ ev.batch_idx < ev.n
    /\ ev' = [ev EXCEPT !.batch_idx = @ + 1,
                        !.pass_batches = Append(@, ev.batch_idx),
                        !.log = @ \o << <<"eval_func", ev.batch_idx>>,
                                        <<"collect", ev.batch_idx>> >>]
    /\ UNCHANGED <<stageFrame, pc, err, params, train_stage, calls>>

\* The result of one pass: every metric, computed from what the collector was
\* fed with the model as it then was
PassResult ==
    [k \in 1..Len(Metrics) |->
        <<Metrics[k], [params |-> params, train_stage |-> train_stage,
                       batches |-> ev.pass_batches]>>]

\* f'{stage}-{key}' for every key of result_tmp
StageLabelled(stage, result_tmp) ==
    [k \in 1..Len(result_tmp) |-> << <<stage, result_tmp[k][1]>>, result_tmp[k][2] >>]

\* Trainer.evaluate after its batch loop: get_data_struct, evaluator.evaluate
\* and return; within FairGoTrainer.evaluate the result is stored under the
\* stage's labels
EvalPassEnd ==
    /\ pc = "eval_pass"
    /\ ev.batch_idx = ev.n
    /\ LET logged == Append(ev.log, <<"aggregate">>)
       IN IF ev.stage = None
          THEN /\ ev' = [ev EXCEPT !.op = "returned", !.result = Some(PassResult),
                                   !.log = logged]
               /\ pc' = "idle"
          ELSE /\ ev' = [ev EXCEPT
                           !.final_result = @ \o StageLabelled(ev.stage[1], PassResult),
                           !.log = logged]
               /\ pc' = "eval_stage"
    /\ UNCHANGED <<stageFrame, err, params, train_stage, calls>>

NextSession ==
    \/ Next
    \/ NextEval
    \/ \E d \in EvalData, lbm \in BOOLEAN, mf \in {None, Some("ext")} :
          CallEvaluateBase(d[1], d[2], lbm, mf)
    \/ EvalStage
    \/ EvalPassBatch
    \/ EvalPassEnd

SpecSession == InitSession /\ [][NextSession]_vars

\* ------------------------------------------------- the mask rejection loop
\* Masked trainers that enter the finetune stage directly and train without
\* validation, with len(config['sst_attr_list']) ranging over 0..MaxSst.
MaskConfigs ==
    { Cfg(v, e, 0, 1, TRUE, i, n, TRUE, TRUE, 1) :
      v \in {"FairGo", "PFCN"}, e \in 1..MaxEpochs, i \in 1..2, n \in 0..MaxSst }

InitMask == InitOf(MaskConfigs)

\* The exit of `while mask.sum() == 0`: a draw with a non-zero entry
MaskExit == \E m \in MaskDraws : MaskAccepted(m) /\ SampleMask(m)

NextMask ==
    \/ \E a \in {x \in FitArgs : x.valid_data = "none"} : CallFit(a)
    \/ FitEntry
    \/ EpochStart
    \/ LoopExit
    \/ \E m \in MaskDraws : SampleMask(m)
    \/ \E loss \in {"finite", "nan"} : TrainBatch(loss)
    \/ PassEnd
    \/ AfterTrain
    \/ FitTail

\* np.random.choice is fair: a draw that stays possible is eventually made
SpecMask == InitMask /\ [][NextMask]_vars /\ WF_vars(MaskExit)

\* ----------------------------------------------------------------- claims
\* Positions inside an epoch loop
LoopPcs == {"loop_head", "mask", "batch", "epoch_end", "valid", "update",
            "callback", "stop_check"}
CalledFit == "fit" \in {calls[i] : i \in 1..Len(calls)}

\* C1: in every pass of a masked epoch (FairGoTrainer, PFCNTrainer with a filter)
\* the sst_list handed to the loss function selects at least one attribute, and
\* only declared ones.
C1_MaskNonEmpty ==
    (pc = "batch" /\ ep.pass \in {"filter", "dis"}) =>
        /\ ep.sst_list # None
        /\ Len(ep.sst_list[1]) >= 1
        /\ \A i \in 1..Len(ep.sst_list[1]) : ep.sst_list[1][i] \in 1..cfg.sst_num

C1_Witness ==
    /\ pc = "batch" /\ ep.pass = "dis" /\ ep.batch_idx = 1
    /\ cfg.variant = "PFCN" /\ cfg.sst_num = MaxSst
    /\ Len(ep.sst_list[1]) = 1

\* C2: from the validation that raises the stop flag on, the loop only leaves:
\* no position of a further epoch is entered, no optimizer steps, no epoch
\* begins, no early-stopping result changes and no checkpoint is written.
C2_StopEndsLoop ==
    [][ valid.stop_flag =>
          /\ pc' \in {"callback", "stop_check", "fit_tail", "pretrain_tail",
                      "idle", "reset_params", "error"}
          /\ opt_state' = opt_state
          /\ epochs_run' = epochs_run
          /\ epoch_idx' = epoch_idx
          /\ cur_step' = cur_step
          /\ best_valid_score' = best_valid_score
          /\ disk' = disk
          /\ ckpt_log' = ckpt_log ]_vars

C2_Witness ==
    /\ pc = "fit_tail" /\ valid.stop_flag /\ epoch_idx + 1 < epochs

\* C3: in the epoch loop of fit with validation, a positive interval and saving,
\* a step writes a checkpoint exactly when it is the update step of an epoch that
\* improved, the checkpoint records that epoch, and best_valid_result changes on
\* exactly those steps; and in the run of three epochs scoring 1, 2, 2 with
\* stopping_step 1 the loop stops at the third epoch with checkpoints of the
\* first two only.
C3_InLoop ==
    /\ loop = "fit" /\ pc \in LoopPcs
    /\ args.saved /\ args.valid_data # "none" /\ eval_step > 0

C3_Step ==
    C3_InLoop =>
        /\ (ckpt_log' # ckpt_log) <=> (pc = "update" /\ valid.update_flag)
        /\ (disk' # disk) => (ckpt_log' # ckpt_log)
        /\ (ckpt_log' # ckpt_log) =>
               ckpt_log' = Append(ckpt_log, <<saved_model_file, epoch_idx>>)
        /\ (best_valid_result' # best_valid_result) <=>
               (pc = "update" /\ valid.update_flag)

OwnWrites == SelectSeq(ckpt_log, LAMBDA w : w[1] # "pretrain")

C3_Scenario ==
    ( /\ pc = "fit_tail" /\ args.saved /\ start_epoch = 0
      /\ eval_step = 1 /\ cfg.stopping_step = 1 /\ cfg.valid_metric_bigger
      /\ cb_log = << <<0, 1>>, <<1, 2>>, <<2, 2>> >> )
    => ( /\ valid.stop_flag
         /\ epoch_idx = 2
         /\ OwnWrites = << <<saved_model_file, 0>>, <<saved_model_file, 1>> >> )

C3_SaveIffImproved == [][C3_Step]_vars /\ []C3_Scenario

C3_Witness ==
    /\ pc = "fit_tail" /\ args.saved /\ start_epoch = 0
    /\ eval_step = 1 /\ cfg.stopping_step = 1 /\ cfg.valid_metric_bigger
    /\ cb_log = << <<0, 1>>, <<1, 2>>, <<2, 2>> >>
    /\ Len(ckpt_log) = 2

\* C4: a NaN batch loss ends the run with the ValueError at that batch, without
\* the optimizer step, the parameters or the disk changing; nothing follows the
\* error; and no checkpoint of the running loop records the epoch of the NaN.
NanError == "ValueError: Training loss is nan"

NoCheckpointOfThisEpoch ==
    \A i \in 1..Len(ckpt_log) :
        ~( /\ ckpt_log[i][2] = epoch_idx
           /\ (ckpt_log[i][1] = "pretrain") <=> (loop = "pretrain") )

C4_NanAborts ==
    /\ [][ ep'.loss = "nan" =>
             /\ pc' = "error" /\ err' = NanError
             /\ (pc # "error" =>
                    /\ opt_state' = opt_state /\ params' = params
                    /\ disk' = disk /\ ckpt_log' = ckpt_log) ]_vars
    /\ [][ pc = "error" => FALSE ]_vars
    /\ [](ep.loss = "nan" => NoCheckpointOfThisEpoch)

C4_Witness ==
    /\ pc = "error" /\ err = NanError /\ ep.loss = "nan"
    /\ ep.batch_idx = 1 /\ epoch_idx = 1 /\ Len(ckpt_log) = 1

\* C5 (as claimed): after resume_checkpoint on a checkpoint of epoch e, step s and
\* best score b, the first epoch the next fit trains has index e + 1 and begins
\* with cur_step = s and best_valid_score = b, in every trainer class.
C5_ResumeStartsNext ==
    [][ (calls = <<"resume", "fit">> /\ epochs_run = <<>> /\ epochs_run' # <<>>) =>
          /\ epoch_idx = disk["ext"][1].epoch[1] + 1
          /\ cur_step = disk["ext"][1].cur_step[1]
          /\ best_valid_score = disk["ext"][1].best_valid_score[1] ]_vars

\* C6 (as claimed): after fit has saved a checkpoint, resuming from that file
\* ends without error and leaves self.optimizer, and in the masked trainers the
\* filter and discriminator optimizers, in the state the checkpoint holds.
C6_RoundTrip ==
    (calls = <<"fit", "resume">>) =>
        LET ck == disk[saved_model_file][1]
        IN /\ pc # "error"
           /\ opt_state[optimizer] = ck.optimizer[1]
           /\ Masked(cfg) =>
                 /\ opt_state["filter"] = ck.optimizer_filter[1]
                 /\ opt_state["dis"] = ck.optimizer_dis[1]

\* C7: the early-stopping update of a validated epoch depends on (score, best,
\* step, stopping_step, direction) only: an improving score becomes the best,
\* the step is 0 and the update flag is set; otherwise the best is kept, the step
\* grows by 1, the update flag is clear and the stop flag is (step + 1 >= max).
Improves(score, best, bigger) ==
    IF bigger THEN score > best ELSE score < best

C7_Result(score) ==
    IF Improves(score, best_valid_score, cfg.valid_metric_bigger)
    THEN /\ best_valid_score' = score
         /\ cur_step' = 0
         /\ valid'.update_flag
    ELSE /\ best_valid_score' = best_valid_score
         /\ cur_step' = cur_step + 1
         /\ ~valid'.update_flag
         /\ valid'.stop_flag <=> (cur_step + 1 >= cfg.stopping_step)

C7_EarlyStoppingUpdate ==
    [][ (pc = "valid" /\ pc' = "update") => C7_Result(valid'.score) ]_vars

C7_Witness ==
    /\ pc = "update" /\ ~valid.update_flag /\ valid.stop_flag
    /\ cur_step = 2 /\ ~cfg.valid_metric_bigger /\ best_valid_score = 1

\* C8: on a non-improving early-stopping update the step grows by exactly 1 and
\* the best score is kept; the stop flag is set exactly when the new step has
\* reached stopping_step, and once set by a non-improving update it is set by
\* the next non-improving update too.
C8_RepeatedNonImproving ==
    [][ (pc = "es" /\ ~Improves(valid'.score, best_valid_score, cfg.valid_metric_bigger)) =>
          /\ cur_step' = cur_step + 1
          /\ best_valid_score' = best_valid_score
          /\ valid'.stop_flag <=> (cur_step' >= cfg.stopping_step)
          /\ (valid.stop_flag /\ ~valid.update_flag) => valid'.stop_flag ]_vars

C8_Witness ==
    /\ pc = "es" /\ valid.stop_flag /\ cur_step = cfg.stopping_step + 2
    /\ valid.score = best_valid_score

\* C9: in FairGoTrainer.fit no finetune epoch begins before the pretrain loop has
\* ended, by exhaustion of pretrain_epochs or by the stop flag; a finetune epoch
\* trains in stage 'finetune' only; the ended pretrain loop goes on to
\* reset_params unless the run ends in an error; reset_params sets stage
\* 'finetune' and enters Trainer.fit, and the stage is kept
\* while fit runs; a session built in stage 'finetune' runs no pretrain epoch;
\* and a stage that is neither is rejected before any epoch.
PretrainRan == \E i \in 1..Len(epochs_run) : epochs_run[i][1] = "pretrain"
FinetuneRan == \E i \in 1..Len(epochs_run) : epochs_run[i][1] = "fit"

C9_State ==
    cfg.variant = "FairGo" =>
        /\ (loop = "pretrain" /\ pc \in LoopPcs) => ~FinetuneRan
        /\ pc = "pretrain_tail" =>
              /\ ~FinetuneRan
              /\ epoch_idx >= cfg.pretrain_epochs \/ valid.stop_flag
        /\ (loop = "fit" /\ pc \in LoopPcs) => train_stage = "finetune"
        /\ FinetuneRan => train_stage = "finetune"
        /\ cfg.load_pretrain_weight => ~PretrainRan
        /\ (train_stage = "foreign" /\ CalledFit) =>
              (pc = "error" /\ epochs_run = <<>>)

C9_Step ==
    cfg.variant = "FairGo" =>
        /\ pc = "pretrain_tail" => pc' \in {"reset_params", "error"}
        /\ pc = "reset_params" => (train_stage' = "finetune" /\ pc' = "fit_entry")
        /\ (train_stage = "finetune" /\ pc # "idle") => train_stage' = "finetune"
        /\ \A i \in 1..Len(epochs_run) : epochs_run'[i] = epochs_run[i]

C9_Staging == []C9_State /\ [][C9_Step]_vars

C9_Witness ==
    /\ cfg.variant = "FairGo" /\ pc = "batch" /\ loop = "fit"
    /\ PretrainRan /\ train_stage = "finetune" /\ ep.batch_idx = 1

\* C10: reset_params sets start_epoch and cur_step to 0, best_valid_score to the
\* worst value of the direction, best_valid_result to None and train_loss_dict to
\* empty, whatever they were, and leaves the model parameters and the optimizer
\* states as they are; the finetune loop is entered with these values.
C10_Reset ==
    /\ start_epoch = 0
    /\ cur_step = 0
    /\ best_valid_score = WorstScore(cfg.valid_metric_bigger)
    /\ best_valid_result = None
    /\ train_loss_dict = {}

C10_ResetParams ==
    /\ [][ pc = "reset_params" =>
             /\ C10_Reset'
             /\ params' = params
             /\ opt_state' = opt_state
             /\ disk' = disk ]_vars
    /\ []((pc = "fit_entry" /\ loop = "pretrain") => C10_Reset)

C10_Witness ==
    /\ pc = "fit_entry" /\ loop = "pretrain"
    /\ args.valid_data = "neg" /\ eval_step > 0
    /\ params > 0 /\ C10_Reset

\* C11: a training step of a FairGoTrainer steps one optimizer role, that of the
\* stage and pass in progress: the pretrain role in a pretrain epoch, the filter
\* role in the filter pass and the discriminator role in the discriminator pass
\* of a finetune epoch; no other role changes, and the pretrain role is never
\* stepped once the stage is 'finetune'.
StageRole ==
    IF loop = "pretrain" THEN "pretrain"
    ELSE IF ep.pass = "filter" THEN "filter" ELSE "dis"

C11_Step ==
    (cfg.variant = "FairGo" /\ pc = "batch") =>
        /\ \A r \in Roles : opt_state'[r] # opt_state[r] => r = StageRole
        /\ loop = "fit" => ep.pass \in {"filter", "dis"}
        /\ train_stage = "finetune" => opt_state'["pretrain"] = opt_state["pretrain"]
        /\ train_stage = "finetune" <=> loop = "fit"
        /\ params' # params => opt_state'[StageRole] = opt_state[StageRole] + 1

C11_StageRoles == [][C11_Step]_vars

C11_Witness ==
    /\ cfg.variant = "FairGo" /\ calls = <<"fit">>
    /\ pc = "batch" /\ loop = "fit" /\ ep.pass = "dis" /\ ep.batch_idx = 1
    /\ opt_state["pretrain"] = NumBatches
    /\ opt_state["filter"] = NumBatches
    /\ opt_state["dis"] = 1
    /\ opt_state["base"] = 0

\* C12: in the epoch loop of fit with saving and without validation (no
\* validation set, or eval_step <= 0) no step enters validation, the
\* early-stopping state and best_valid_result never change, the end of each
\* trained epoch writes a checkpoint recording that epoch, and when fit leaves
\* its loop the epochs trained are start_epoch .. epochs - 1 in order, each with
\* its checkpoint, and the stop flag was never raised.
C12_NoValidation ==
    /\ loop = "fit" /\ args.saved
    /\ (eval_step <= 0 \/ args.valid_data = "none")

FitEpochsRun == SelectSeq(epochs_run, LAMBDA w : w[1] = "fit")

\* <<tag, a>>, <<tag, a + 1>>, ..., <<tag, b>>
TaggedRange(tag, a, b) ==
    IF b < a THEN <<>> ELSE [i \in 1..(b - a + 1) |-> <<tag, a + i - 1>>]

\* The checkpoint writes of fit other than the marker written before the loop
EpochWrites == SelectSeq(OwnWrites, LAMBDA w : w[2] # -1)

C12_Step ==
    (C12_NoValidation /\ pc \in LoopPcs) =>
        /\ pc' \notin {"valid", "update", "callback", "stop_check"}
        /\ cur_step' = cur_step
        /\ best_valid_score' = best_valid_score
        /\ best_valid_result' = best_valid_result
        /\ pc = "epoch_end" =>
              /\ ckpt_log' = Append(ckpt_log, <<saved_model_file, epoch_idx>>)
              /\ disk'[saved_model_file] # None
              /\ disk'[saved_model_file][1].epoch = Some(epoch_idx)
              /\ epoch_idx' = epoch_idx + 1
        /\ pc # "epoch_end" => ckpt_log' = ckpt_log

C12_End ==
    (C12_NoValidation /\ pc = "fit_tail") =>
        /\ FitEpochsRun = TaggedRange("fit", start_epoch, epochs - 1)
        /\ EpochWrites = TaggedRange(saved_model_file, start_epoch, epochs - 1)
        /\ ~valid.stop_flag
        /\ cb_log = <<>>

C12_SaveEveryEpoch == [][C12_Step]_vars /\ []C12_End

C12_Witness ==
    /\ C12_NoValidation /\ pc = "fit_tail"
    /\ args.valid_data = "neg" /\ eval_step = 0
    /\ start_epoch = 1 /\ epochs = 3
    /\ EpochWrites = <<<<"ext", 1>>, <<"ext", 2>>>>

\* C13: in the epoch loop of fit with a validation set and an interval
\* k = min(config eval_step, epochs) > 0, the trained epoch e goes on to
\* validation and the early-stopping update exactly when (e + 1) % k = 0 and
\* otherwise straight to the next epoch; validation is entered from nowhere
\* else, and cur_step and best_valid_score change in no other step of the loop.
C13_Validating ==
    loop = "fit" /\ args.valid_data # "none" /\ eval_step > 0

C13_Step ==
    (C13_Validating /\ pc \in LoopPcs) =>
        /\ eval_step = Min(cfg.eval_step, cfg.epochs)
        /\ pc = "epoch_end" =>
              /\ (pc' = "valid") <=> ((epoch_idx + 1) % eval_step = 0)
              /\ pc' = "valid" => epoch_idx' = epoch_idx
              /\ pc' # "valid" => (pc' = "loop_head" /\ epoch_idx' = epoch_idx + 1)
        /\ pc' = "valid" => pc = "epoch_end"
        /\ pc = "valid" =>
              /\ pc' \in {"update", "error"}
              /\ pc' = "update" =>
                    LET es == early_stopping(valid'.score, best_valid_score, cur_step,
                                             cfg.stopping_step, cfg.valid_metric_bigger)
                    IN /\ valid'.score \in Scores
                       /\ cur_step' = es.cur_step
                       /\ best_valid_score' = es.best
        /\ pc # "valid" => (cur_step' = cur_step /\ best_valid_score' = best_valid_score)

C13_EvalInterval ==
    /\ [][C13_Step]_vars
    /\ []((C13_Validating /\ pc \in {"valid", "update", "callback", "stop_check"})
            => (epoch_idx + 1) % eval_step = 0)

C13_Witness ==
    /\ C13_Validating /\ pc = "update" /\ eval_step = 2 /\ epoch_idx = 1
    /\ epochs_run = <<<<"fit", 0>>, <<"fit", 1>>>>
    /\ valid.update_flag /\ cur_step = 0

\* C14: when Trainer.fit is entered with saving and start_epoch >= epochs, its
\* first step writes one checkpoint with epoch marker -1 to saved_model_file;
\* from then to the return of fit that is the only checkpoint written, no epoch
\* is trained and the file exists; and a marker checkpoint is written in no other
\* case.
\* fit is the latest call made on the session (running or returned)
LastCallFit == calls # <<>> /\ calls[Len(calls)] = "fit"

C14_PastBudget == args.saved /\ start_epoch >= epochs

C14_Step ==
    (pc = "fit_entry" /\ C14_PastBudget) =>
        /\ ckpt_log' = Append(ckpt_log, <<saved_model_file, -1>>)
        /\ disk'[saved_model_file] # None
        /\ disk'[saved_model_file][1].epoch = Some(-1)
        /\ epochs_run' = epochs_run /\ opt_state' = opt_state /\ params' = params

C14_State ==
    /\ (C14_PastBudget /\ loop = "fit" /\ LastCallFit
          /\ pc \notin {"pretrain_entry", "fit_entry", "error"}) =>
          /\ pc \in {"loop_head", "fit_tail", "idle"}
          /\ epochs_run = <<>>
          /\ ckpt_log = <<<<saved_model_file, -1>>>>
          /\ disk[saved_model_file] # None
          /\ disk[saved_model_file][1].epoch = Some(-1)
    /\ \A i \in 1..Len(ckpt_log) :
          ckpt_log[i][2] = -1 => (i = 1 /\ C14_PastBudget)

C14_MarkerCheckpoint == [][C14_Step]_vars /\ []C14_State

C14_Witness ==
    /\ pc = "idle" /\ ret # None /\ C14_PastBudget
    /\ start_epoch = epochs
    /\ ckpt_log = <<<<"ext", -1>>>>

\* C15 (as claimed): when fit has returned, its result is the pair
\* (best_valid_score, best_valid_result) the session holds, and the pair
\* (-1, None) if fit was given no validation set.
SentinelScore == -1

C15_FitReturn ==
    (pc = "idle" /\ ret # None /\ LastCallFit) =>
        IF args.valid_data = "none"
        THEN ret = Some(<<SentinelScore, None>>)
        ELSE ret = Some(<<best_valid_score, best_valid_result>>)

\* C16: in the epoch loop of Trainer.fit, a validated epoch passes from the
\* update to the callback step and from there to the stop test; with a callback
\* supplied that step calls it once with (epoch_idx, valid_score), improved or
\* not, stop flag raised or not; the callback is called in no other step, so at
\* the stop test the validated epoch has exactly one call, a validation in
\* progress has none yet, the calls are in increasing epoch order on validated
\* epochs only, and without a callback nothing is called.
CallsFor(e) == Len(SelectSeq(cb_log, LAMBDA c : c[1] = e))

C16_Step ==
    /\ cb_log' # cb_log =>
          /\ pc = "callback" /\ loop = "fit" /\ args.callback_fn
          /\ cb_log' = Append(cb_log, <<epoch_idx, valid.score>>)
    /\ (pc = "callback" /\ args.callback_fn) => cb_log' # cb_log
    /\ (pc = "update" /\ loop = "fit") => pc' = "callback"
    /\ pc = "callback" => pc' = "stop_check"
    /\ (pc' = "stop_check" /\ loop = "fit") => pc \in {"callback", "stop_check"}

C16_State ==
    /\ ~args.callback_fn => cb_log = <<>>
    /\ \A i \in 1..Len(cb_log) :
          /\ eval_step > 0 /\ (cb_log[i][1] + 1) % eval_step = 0
          /\ cb_log[i][2] \in Scores
          /\ i > 1 => cb_log[i][1] > cb_log[i - 1][1]
    /\ (loop = "fit" /\ args.callback_fn /\ LastCallFit) =>
          /\ pc \in {"stop_check", "fit_tail"} /\ valid.score \in Scores =>
                /\ CallsFor(epoch_idx) = 1
                /\ cb_log[Len(cb_log)] = <<epoch_idx, valid.score>>
          /\ pc \in {"mask", "batch", "epoch_end", "valid", "update", "callback"} =>
                CallsFor(epoch_idx) = 0

C16_CallbackEveryEval == [][C16_Step]_vars /\ []C16_State

C16_Witness ==
    /\ pc = "fit_tail" /\ loop = "fit" /\ args.callback_fn
    /\ valid.stop_flag /\ ~valid.update_flag
    /\ Len(cb_log) = 2
    /\ cb_log[2] = <<epoch_idx, valid.score>>

\* C17 (as claimed): PFCNTrainer.evaluate with a filter, N attributes of
\* distinct names and a non-empty evaluation set, once its checkpoint is loaded,
\* ends by returning a result of exactly 2^N - 1 entries, one label per
\* non-empty subset of the attributes and no label twice.
DistinctNames(attrs) ==
    \A j, k \in 1..Len(attrs) : attrs[j] = attrs[k] => j = k

\* The names of the non-empty subsets of the attributes
NonEmptySubsets(attrs) ==
    {{attrs[j] : j \in P} : P \in (SUBSET (1..Len(attrs))) \ {{}}}

SeqRange(q) == {q[k] : k \in 1..Len(q)}

C17_Evaluating ==
    /\ cfg.variant = "PFCN" /\ cfg.filter_on
    /\ calls # <<>> /\ calls[Len(calls)] = "evaluate"
    /\ DistinctNames(cfg.sst_attr_list)
    /\ ev.op \in {"evaluate", "returned"} /\ ev.log # <<>>

C17_SubsetCount ==
    C17_Evaluating =>
        /\ pc # "error"
        /\ ev.op = "returned" =>
              LET res == ev.result[1]
              IN /\ Len(res) = 2 ^ cfg.sst_num - 1
                 /\ \A j, k \in 1..Len(res) : res[j][1] = res[k][1] => j = k
                 /\ {SeqRange(res[k][1][2]) : k \in 1..Len(res)}
                       = NonEmptySubsets(cfg.sst_attr_list)

\* C18: in PFCNTrainer.evaluate with a filter, the passes follow one another in
\* increasing subset size and, within a size, in the order of the attribute
\* positions; a pass feeds the collector batch 0, 1, ..., n - 1 of the
\* evaluation set for its subset and is then aggregated, before the first batch
\* of the next pass; the aggregated entry holds exactly those batches.
\* Position lists compare as itertools.combinations yields them.
RECURSIVE LexLess(_, _)
LexLess(a, b) ==
    IF a = <<>> \/ b = <<>> THEN FALSE
    ELSE Head(a) < Head(b) \/ (Head(a) = Head(b) /\ LexLess(Tail(a), Tail(b)))

\* The position in sst_attr_list of a name (the names are distinct)
PosOf(name) == CHOOSE j \in 1..Len(cfg.sst_attr_list) : cfg.sst_attr_list[j] = name

Positions(names) == [k \in 1..Len(names) |-> PosOf(names[k])]

Aggregated == SelectSeq(ev.log, LAMBDA x : x[1] = "aggregate")

C18_InOrder(a, b) ==
    \/ Len(a) < Len(b)
    \/ Len(a) = Len(b) /\ LexLess(Positions(a), Positions(b))

C18_Blocks ==
    \A k \in 2..Len(ev.log) :
        LET x == ev.log[k]
            before == ev.log[k - 1]
        IN /\ x[1] = "collect" =>
                 IF x[3] = 0
                 THEN before[1] \in {"model.eval", "aggregate"}
                 ELSE before = <<"collect", x[2], x[3] - 1>>
           /\ x[1] = "aggregate" =>
                 /\ ev.n > 0 => before = <<"collect", x[2], ev.n - 1>>
                 /\ \E j \in 1..Len(ev.final_result) :
                       /\ ev.final_result[j][1] = ResultLabel(x[2][1])
                       /\ ev.final_result[j][2].sst_list = x[2]
                       /\ ev.final_result[j][2].batches = [b \in 1..ev.n |-> b - 1]

C18_SubsetOrder ==
    (C17_Evaluating /\ cfg.variant = "PFCN" /\ cfg.filter_on
       /\ ev.op \in {"evaluate", "returned"} /\ ev.log # <<>>) =>
        /\ \A k \in 2..Len(Aggregated) :
              C18_InOrder(Aggregated[k - 1][2][1], Aggregated[k][2][1])
        /\ \A k \in 1..Len(Aggregated) :
              ev.final_result[k][1] = ResultLabel(Aggregated[k][2][1])
        /\ C18_Blocks

C18_Witness ==
    /\ cfg.variant = "PFCN" /\ cfg.filter_on /\ cfg.sst_attr_list = <<2, 1>>
    /\ ev.op = "returned" /\ ev.log # <<>> /\ ev.n = 2
    /\ Len(Aggregated) = 3
    /\ Aggregated[1][2] = Some(<<2>>) /\ Aggregated[3][2] = Some(<<2, 1>>)

\* C19: for a batch of B > 0 rows and test_batch_size C > 0, when _spilt_predict
\* returns it has predicted ceil(B / C) chunks, each once; the chunks are the
\* batch cut in order into pieces of C rows with a shorter last piece; and the
\* result has B scores, the k-th being the score of predicting row k in the
\* whole batch.
\* The least k with k * C >= B
CeilDiv(b, c) == CHOOSE k \in 0..b : k * c >= b /\ (k = 0 \/ (k - 1) * c < b)

RECURSIVE Flatten(_)
Flatten(qs) == IF qs = <<>> THEN <<>> ELSE Head(qs) \o Flatten(Tail(qs))

C19_SplitPredict ==
    (pc = "split_done") =>
        LET B == Len(ev.rows)
            C == ev.test_batch_size
            whole == Predict(ev.rows, ev.sst_list, ev.squeezes).v
        IN /\ Len(ev.predicted) = CeilDiv(B, C)
           /\ Flatten(ev.predicted) = ev.rows
           /\ \A k \in 1..Len(ev.predicted) :
                 /\ Len(ev.predicted[k]) >= 1
                 /\ Len(ev.predicted[k]) <= C
                 /\ k < Len(ev.predicted) => Len(ev.predicted[k]) = C
           /\ ev.result # None
           /\ Len(ev.result[1]) = B
           /\ \A k \in 1..B : ev.result[1][k] = whole[k]

C19_Witness ==
    /\ pc = "split_done" /\ cfg.variant = "PFCN"
    /\ ev.rows = <<1, 2, 2, 1>> /\ ev.test_batch_size = 3 /\ ev.squeezes
    /\ Len(ev.predicted) = 2 /\ ev.predicted[2] = <<1>>
    /\ ev.result = Some(<<11, 21, 21, 11>>)

\* C20: when _full_sort_batch_eval returns, the scores matrix has one row per
\* user of the batch and one column per catalog item; every cell of column 0
\* and every history cell is -inf; every other cell holds the score the model
\* gives that user and item, so wherever the model's score is finite the -inf
\* cells are exactly the history cells and the padding column.
C20_Masked(c) ==
    \/ c[2] = 0
    \/ ev.history_index # None /\ c \in ev.history_index[1]

C20_FullSortMask ==
    (pc = "full_sort_done") =>
        /\ ev.scores # None
        /\ DOMAIN ev.scores[1] = Cells(Len(ev.interaction), ev.tot_item_num)
        /\ \A c \in Cells(Len(ev.interaction), ev.tot_item_num) :
              LET produced == ModelScore(ev.interaction[c[1] + 1], c[2], ev.model)
              IN /\ C20_Masked(c) => ev.scores[1][c] = NegInf
                 /\ ~C20_Masked(c) => ev.scores[1][c] = produced
                 /\ produced # NegInf => (ev.scores[1][c] = NegInf <=> C20_Masked(c))

C20_Witness ==
    /\ pc = "full_sort_done" /\ ~ev.implemented
    /\ ev.interaction = <<2, 1>> /\ ev.tot_item_num = 3 /\ ev.test_batch_size = 2
    /\ ev.model = "dense"
    /\ ev.history_index = Some({<<0, 1>>, <<1, 2>>})
    /\ ev.scores = Some([c \in Cells(2, 3) |->
                          IF c = <<0, 2>> THEN 22 ELSE IF c = <<1, 1>> THEN 11 ELSE NegInf])

\* C21: with a learner name that is none of adam, sgd, adagrad, rmsprop and
\* sparse_adam (in any case), every _build_optimizer call returns an Adam
\* optimizer with default weight decay and logs the unrecognized-optimizer
\* warning, no call raises, and the constructor completes with every optimizer
\* of the trainer class built.
Recognized == {"adam", "sgd", "adagrad", "rmsprop", "sparse_adam"}

C21_Unrecognized == ev.op = "__init__" /\ Lower(ev.learner) \notin Recognized

C21_Step ==
    (C21_Unrecognized /\ pc = "build" /\ ev.todo # <<>>) =>
        /\ pc' = "build"
        /\ err' = ""
        /\ ev'.built = Append(ev.built, [role |-> Head(ev.todo), algo |-> "adam",
                                          weight_decay |-> None])
        /\ warnings' # <<>>
        /\ warnings'[Len(warnings')] = "unrecognized optimizer"

C21_State ==
    C21_Unrecognized =>
        /\ pc # "error"
        /\ pc = "constructed" =>
              /\ [k \in 1..Len(ev.built) |-> ev.built[k].role] = BuildOrder(cfg)
              /\ \A k \in 1..Len(ev.built) : ev.built[k].algo = "adam"

C21_DefaultOptimizer == [][C21_Step]_vars /\ []C21_State

C21_Witness ==
    /\ pc = "constructed" /\ ev.op = "__init__" /\ ev.learner = "adamw"
    /\ cfg.variant = "FairGo" /\ ~cfg.load_pretrain_weight
    /\ Len(ev.built) = 4
    /\ \A k \in 1..4 : ev.built[k].algo = "adam"
    /\ warnings = <<"unrecognized optimizer", "unrecognized optimizer",
                    "unrecognized optimizer", "unrecognized optimizer">>

\* C22: a resume_checkpoint call on a checkpoint of another model identity
\* restores start_epoch, cur_step and best_valid_score from it and logs one
\* warning; the parameters are bound when they fit, and the call raises only
\* when binding raises (or, in PFCNTrainer without a filter, on the missing
\* optimizer, as it does for a matching checkpoint).  In the plain Trainer a
\* mismatching checkpoint that binds also restores the optimizer state and the
\* call returns.
C22_Step ==
    (calls' = Append(calls, "resume")) =>
        LET ck == disk'[saved_model_file'][1]
        IN (ck.model # "same") =>
            /\ start_epoch' = ck.epoch[1] + 1
            /\ cur_step' = ck.cur_step[1]
            /\ best_valid_score' = ck.best_valid_score[1]
            /\ warnings' = Append(warnings, "architecture differs from checkpoint")
            /\ ck.binds => params' = ck.state_dict
            /\ ~ck.binds => (pc' = "error" /\ err' = "RuntimeError: load_state_dict")
            /\ pc' = "error" => (~ck.binds \/ (cfg.variant = "PFCN" /\ ~cfg.filter_on))
            /\ (cfg.variant = "Trainer" /\ ck.binds) =>
                  (pc' = "idle" /\ opt_state'[optimizer] = ck.optimizer[1])

C22_MismatchWarns == [][C22_Step]_vars

C22_Witness ==
    /\ pc = "idle" /\ cfg.variant = "Trainer" /\ calls = <<"resume">>
    /\ disk["ext"] # None /\ disk["ext"][1].model = "other"
    /\ warnings = <<"architecture differs from checkpoint">>
    /\ start_epoch = 1 /\ params = 10 /\ opt_state["base"] = 4

\* C23: an evaluate call whose eval_data is None or has no batch returns None
\* at once in every trainer class: no checkpoint is read into the model, the
\* model's mode and train_stage are as before, nothing is scored or fed to the
\* collector, and no other field of the session changes.
C23_Step ==
    (calls' = Append(calls, "evaluate") /\ EvalDataFalsy(ev'.eval_data[1], ev'.eval_data[2])) =>
        /\ ev'.op = "returned"
        /\ ev'.result = None
        /\ ev'.log = <<>>
        /\ pc' = "idle"
        /\ UNCHANGED <<err, params, train_stage, stageFrame>>

C23_EmptyEvalNoOp == [][C23_Step]_vars

C23_Witness ==
    /\ ev.op = "returned" /\ ev.eval_data = <<"neg", 0>> /\ ev.result = None
    /\ cfg.variant = "FairGo" /\ ~cfg.load_pretrain_weight
    /\ calls = <<"fit", "evaluate">>
    /\ disk["own"] # None /\ disk["pretrain"] # None /\ train_stage = "finetune"

\* C24: with one attribute (sst_num = 1) the rejection loop of the mask ends
\* with its first draw: a step taken while the mask is being drawn leaves the
\* loop.
C24_SingleDraw ==
    [][(pc = "mask" /\ cfg.sst_num = 1 /\ Masked(cfg)) => pc' # "mask"]_vars

\* C25: whenever a mask is being drawn, every non-empty set of attribute
\* indices is the sst_list of some draw the rejection loop accepts, so every
\* attribute can be revealed; and the sst_list an epoch trains with is one of
\* these.
C25_Subsets == {S \in SUBSET (1..cfg.sst_num) : S # {}}

C25_Outcomes == {SstList(m) : m \in {d \in MaskDraws : MaskAccepted(d)}}

C25_EveryMaskPossible ==
    /\ (pc = "mask") =>
          /\ \A S \in C25_Subsets : \E q \in C25_Outcomes : SeqRange(q) = S
          /\ \A i \in 1..cfg.sst_num : \E q \in C25_Outcomes : i \in SeqRange(q)
    /\ (pc = "batch" /\ ep.pass \in {"filter", "dis"}) => ep.sst_list[1] \in C25_Outcomes

C25_Witness ==
    /\ pc = "batch" /\ ep.pass = "dis" /\ cfg.sst_num = MaxSst
    /\ ep.sst_list = Some(<<MaxSst>>)

\* C26: in every evaluation pass (the entries of the log up to an aggregation,
\* since the previous one) every batch of the loader is handed to the collector
\* exactly once, and a pass that returns a result ends with its one aggregation.
C26_Aggregations(log) == {a \in 1..Len(log) : log[a][1] = "aggregate"}

C26_PassStart(log, a) ==
    LET before == {b \in C26_Aggregations(log) : b < a}
    IN IF before = {} THEN 1 ELSE (CHOOSE b \in before : \A c \in before : c <= b) + 1

C26_BatchOnce ==
    (ev.op \in {"evaluate", "pfcn_evaluate", "returned"} /\ ev.log # <<>>) =>
        /\ \A a \in C26_Aggregations(ev.log) :
              \A b \in 0..(ev.eval_data[2] - 1) :
                 Cardinality({k \in C26_PassStart(ev.log, a)..(a - 1) :
                                /\ ev.log[k][1] = "collect"
                                /\ ev.log[k][Len(ev.log[k])] = b}) = 1
        /\ (ev.op = "returned" /\ ev.result # None) =>
              ev.log[Len(ev.log)][1] = "aggregate"

\* C27: when FairGoTrainer.evaluate with load_best_model returns a result,
\* every key is a metric under the label "pretrain" or "finetune"; every
\* metric has its "finetune" entry, computed in stage finetune with the
\* parameters of the finetune checkpoint; the "pretrain" entries are there
\* exactly when load_pretrain_weight is off, computed in stage pretrain with
\* the parameters of the pretrain checkpoint, and come before the "finetune"
\* ones; and the session is left in stage finetune holding the finetune
\* checkpoint's parameters.
C27_Returned ==
    /\ cfg.variant = "FairGo" /\ pc = "idle"
    /\ calls # <<>> /\ calls[Len(calls)] = "evaluate"
    /\ ev.op = "returned" /\ ev.result # None /\ ev.load_best_model

C27_Keys(res, stage) == {k \in 1..Len(res) : res[k][1][1] = stage}

C28_Step ==
    (pc = "batch" /\ ep'.batch_idx = ep.batch_idx + 1) =>
        /\ ep'.loss = "finite"
        /\ opt_state' = [opt_state EXCEPT ![optimizer] = @ + 1]
        /\ optimizer' = optimizer

C28_EpochVisits == ep.filter_loss + ep.batch_idx

C28_BatchesOnce ==
    /\ [][C28_Step]_vars
    /\ [](pc = "epoch_end" => C28_EpochVisits = NumBatches)

\* C29: within a stage of fit, best_valid_score changes only at a validation,
\* only when that validation is flagged as an improvement, and then to the
\* validation's score, which is strictly better for the configured direction;
\* after every validation it is the better of its previous value and the new
\* score, hence the best score of the stage so far.
C29_Better(a, b) == IF cfg.valid_metric_bigger THEN a > b ELSE a < b

C29_Step ==
    /\ (pc = "valid" /\ pc' = "update") =>
          /\ best_valid_score' = IF C29_Better(valid'.score, best_valid_score)
                                 THEN valid'.score ELSE best_valid_score
          /\ valid'.update_flag <=> best_valid_score' # best_valid_score
    /\ (pc \in LoopPcs /\ pc' \in LoopPcs /\ loop' = loop) =>
          /\ ~C29_Better(best_valid_score, best_valid_score')
          /\ best_valid_score' # best_valid_score => (pc = "valid" /\ valid'.update_flag)

C29_BestMonotone == [][C29_Step]_vars

C29_Witness ==
    /\ pc = "update" /\ ~cfg.valid_metric_bigger /\ ~valid.update_flag
    /\ best_valid_score = 1 /\ valid.score = MaxScore /\ cur_step = 1
    /\ epoch_idx = 1

\* C30: in a masked adversarial epoch the revealed subset is fixed when the
\* mask is accepted and is the same through both passes; the filter pass, run
\* exactly when epoch_idx is a multiple of train_epoch_interval, steps only the
\* filter optimizer and covers all batches before the discriminator pass
\* starts; the discriminator pass steps only the discriminator optimizer and
\* has covered all batches whenever the epoch's training routine returns.
C30_MaskedEpoch == loop = "fit" /\ Masked(cfg)

C30_Step ==
    C30_MaskedEpoch =>
       /\ (pc = "mask" /\ pc' = "batch") =>
             /\ ep'.sst_list # None /\ ep'.sst_list[1] # <<>>
             /\ ep'.pass = IF epoch_idx % cfg.train_epoch_interval = 0
                           THEN "filter" ELSE "dis"
       /\ (pc = "batch" /\ pc' \in {"batch", "epoch_end"}) =>
             ep'.sst_list = ep.sst_list
       /\ (pc = "batch" /\ ep.pass = "filter") =>
             /\ opt_state'["dis"] = opt_state["dis"]
             /\ ep'.pass = "dis" => /\ ep.batch_idx = NumBatches
                                    /\ ep.total_loss = Some(NumBatches)
                                    /\ ep'.batch_idx = 0
                                    /\ optimizer' = "dis"
             /\ pc' # "epoch_end"
       /\ (pc = "batch" /\ ep.pass = "dis") =>
             /\ opt_state'["filter"] = opt_state["filter"]
             /\ optimizer = "dis"
             /\ ep'.pass # "filter"
       /\ (pc = "batch" /\ pc' = "epoch_end") =>
             /\ ep.pass = "dis" /\ ep.batch_idx = NumBatches
             /\ ep'.dis_loss = NumBatches
             /\ ep'.filter_loss = IF epoch_idx % cfg.train_epoch_interval = 0
                                  THEN NumBatches ELSE 0

C30_PassOrder == [][C30_Step]_vars

C30_Witness ==
    /\ C30_MaskedEpoch /\ pc = "epoch_end"
    /\ ep.filter_loss = NumBatches /\ ep.dis_loss = NumBatches
    /\ Len(ep.sst_list[1]) = MaxSst /\ epoch_idx > 0

\* C31: in a masked adversarial epoch the filter optimizer is stepped exactly
\* when the absolute epoch index is a multiple of train_epoch_interval: such an
\* epoch begins with the filter pass, each of its batches steps the filter
\* optimizer once and the routine returns the summed filter loss; any other
\* epoch never steps the filter optimizer and returns a filter loss of 0.
C31_FilterEpoch == epoch_idx % cfg.train_epoch_interval = 0

C31_Step ==
    (C30_MaskedEpoch /\ pc \in {"mask", "batch"}) =>
       IF C31_FilterEpoch
       THEN /\ (pc = "mask" /\ pc' = "batch") => ep'.pass = "filter"
            /\ (pc = "batch" /\ ep.pass = "filter" /\ ep'.pass = "filter"
                  /\ pc' = "batch") =>
                  /\ ep'.batch_idx = ep.batch_idx + 1
                  /\ opt_state'["filter"] = opt_state["filter"] + 1
            /\ pc' = "epoch_end" => ep'.filter_loss = NumBatches
       ELSE /\ opt_state'["filter"] = opt_state["filter"]
            /\ ep'.pass # "filter"
            /\ pc' = "epoch_end" => ep'.filter_loss = 0

C31_FilterInterval == [][C31_Step]_vars

C31_Witness ==
    /\ C30_MaskedEpoch /\ pc = "epoch_end"
    /\ calls = <<"resume", "fit">> /\ start_epoch = 1 /\ epoch_idx = 1
    /\ cfg.train_epoch_interval = 2
    /\ epochs_run = <<<<"fit", 1>>>>
    /\ ep.filter_loss = 0 /\ ep.dis_loss = NumBatches
    /\ opt_state["filter"] = 2

\* C32: a checkpoint fit writes on a validated epoch records cur_step 0, that
\* epoch's index and, as best_valid_score, that epoch's validation score; and
\* once fit has written such a checkpoint, after every validated epoch the file
\* holds the session's best_valid_score and the epoch
\* epoch_idx - cur_step * eval_step.
C32_File == disk[saved_model_file][1]

C32_Step ==
    (pc = "update" /\ loop = "fit" /\ ckpt_log' # ckpt_log) =>
        /\ disk'[saved_model_file] # None
        /\ disk'[saved_model_file][1].cur_step = Some(0)
        /\ disk'[saved_model_file][1].best_valid_score = Some(valid.score)
        /\ disk'[saved_model_file][1].epoch = Some(epoch_idx)

C32_AfterValid ==
    (loop = "fit" /\ pc \in {"callback", "stop_check"} /\ EpochWrites # <<>>) =>
        /\ disk[saved_model_file] # None
        /\ C32_File.best_valid_score = Some(best_valid_score)
        /\ C32_File.epoch = Some(epoch_idx - cur_step * eval_step)

C32_CheckpointTracksBest == [][C32_Step]_vars /\ []C32_AfterValid

C32_Witness ==
    /\ loop = "fit" /\ pc = "stop_check" /\ EpochWrites # <<>>
    /\ cur_step = 2 /\ epoch_idx = 2 /\ eval_step = 1
    /\ C32_File.epoch = Some(0) /\ ~cfg.valid_metric_bigger

\* C33: when fit returns in a fresh session that was given a validation set
\* and saved = True, with a positive eval_step and at least one epoch, it has
\* validated an epoch and written a checkpoint of an epoch, so the file
\* evaluate(load_best_model=True) reads exists.
C33_FreshFitReturned ==
    /\ pc = "idle" /\ ret # None /\ calls = <<"fit">>
    /\ args.saved /\ args.valid_data # "none"
    /\ cfg.eval_step > 0 /\ cfg.epochs >= 1

C33_CheckpointExists ==
    C33_FreshFitReturned =>
        /\ best_valid_result # None
        /\ EpochWrites # <<>>
        /\ disk[saved_model_file] # None
        /\ disk[saved_model_file][1].epoch # None
        /\ disk[saved_model_file][1].epoch[1] >= 0

C33_Witness ==
    /\ C33_FreshFitReturned
    /\ cfg.eval_step = 2 /\ cfg.epochs = 1 /\ eval_step = 1
    /\ disk[saved_model_file] # None

\* C34: whenever FairGoTrainer.pretrain has left its epoch loop, the loop has
\* written the pretrain checkpoint, and the reload that follows succeeds and
\* gives the model the parameters of that file.
C34_WrittenInLoop == \E i \in 1..Len(ckpt_log) : ckpt_log[i][1] = "pretrain"

C34_Step ==
    pc = "pretrain_tail" =>
        /\ C34_WrittenInLoop
        /\ pc' = "reset_params"
        /\ params' = disk["pretrain"][1].state_dict

C34_PretrainReload == [][C34_Step]_vars

\* C35: a resume_checkpoint call that raises while binding the model
\* parameters or an optimizer state leaves start_epoch, cur_step,
\* best_valid_score and saved_model_file as they were before the call.
C35_Step ==
    (calls' = Append(calls, "resume") /\ pc' = "error") =>
        /\ start_epoch' = start_epoch
        /\ cur_step' = cur_step
        /\ best_valid_score' = best_valid_score
        /\ saved_model_file' = saved_model_file

C35_ResumeAtomic == [][C35_Step]_vars

\* C36: with a filter, every batch of PFCNTrainer.evaluate is evaluated, under
\* the full-ranking and the sampled-negative strategy alike, with the revealed
\* subset of the pass in progress handed to the model, and no batch raises.
C36_FilterBatch ==
    /\ cfg.variant = "PFCN" /\ cfg.filter_on
    /\ calls # <<>> /\ calls[Len(calls)] = "evaluate"
    /\ pc = "eval_batch" /\ ev.batch_idx < ev.n

C36_Step ==
    C36_FilterBatch =>
        /\ pc' # "error"
        /\ ev.sst_list # None
        /\ ev'.log = Append(ev.log, <<"collect", ev.sst_list, ev.batch_idx>>)

C36_BothStrategies == [][C36_Step]_vars

\* C37: with at least one sensitive attribute and fair draws the rejection loop
\* of a masked epoch is left and the epoch goes on to its first batch; with an
\* empty sst_attr_list the loop is never left, so no batch of the epoch is trained.
C37_MaskLoop ==
    /\ (cfg.sst_num >= 1 /\ pc = "mask") ~> (pc = "batch")
    /\ [](cfg.sst_num = 0 => (pc = "mask" => [](pc = "mask")))
    /\ [](cfg.sst_num = 0 => pc # "batch")

C37_Witness ==
    /\ cfg.sst_num = 0 /\ pc = "mask" /\ ep.redraws = MaxRedraws
    /\ epochs_run = <<<<"fit", 0>>>> /\ opt_state = [r \in Roles |-> 0]

\* C38: during fit every batch that steps an optimizer finds the model in
\* training mode, every pass over the training batches begins in training
\* mode, and a validation leaves the model in inference mode, the mode its
\* predictions were made in.
C38_Step ==
    /\ (pc = "batch" /\ opt_state' # opt_state) => (training /\ training')
    /\ (pc' = "batch" /\ ep'.batch_idx = 0 /\ ep'.loss = "none") => training'
    /\ pc = "valid" => ~training'

C38_Modes == [][C38_Step]_vars

C38_Witness ==
    /\ calls = <<"fit">> /\ cfg.variant = "Trainer"
    /\ pc = "batch" /\ epoch_idx = 1 /\ ep.batch_idx = NumBatches
    /\ best_valid_result # None /\ training

\* C39: after resume_checkpoint(path) the session's saved_model_file is path,
\* every checkpoint _save_checkpoint writes afterwards goes to that file and to
\* no other, and the file holds exactly the snapshot saved last.
C39_Resumed == calls # <<>> /\ calls[1] = "resume"

C39_Step ==
    (C39_Resumed /\ ckpt_log' # ckpt_log
        /\ ckpt_log'[Len(ckpt_log')][1] # "pretrain") =>
        /\ ckpt_log'[Len(ckpt_log')][1] = "ext"
        /\ disk'["ext"] # None
        /\ disk'["ext"][1].epoch = Some(ckpt_log'[Len(ckpt_log')][2])
        /\ disk'["ext"][1].state_dict = params
        /\ disk'["own"] = disk["own"]

C39_State ==
    C39_Resumed =>
        /\ saved_model_file = "ext"
        /\ disk["own"] = None
        /\ \A i \in 1..Len(OwnWrites) : OwnWrites[i][1] = "ext"
        /\ OwnWrites # <<>> =>
              disk["ext"][1].epoch = Some(OwnWrites[Len(OwnWrites)][2])

C39_ResumedFileOverwritten == [][C39_Step]_vars /\ []C39_State

C39_Witness ==
    /\ C39_Resumed /\ pc = "idle" /\ ret # None
    /\ OwnWrites = << <<"ext", 1>>, <<"ext", 2>> >>
    /\ disk["ext"][1].epoch = Some(2) /\ disk["own"] = None

====
